---------------------------- MODULE Spec2Model ----------------------------
(***************************************************************************)
(* A model of the example MCP server: the request dispatcher (listTools    *)
(* and callTool), its three tools (calculator, weather, file_operations)   *)
(* and the file system the file_operations tool acts on.                   *)
(*                                                                         *)
(* JavaScript strings are TLA+ strings; a character of a file content      *)
(* names one UTF-16 code unit (see CodeUnitOf).  JavaScript values are     *)
(* records [t, n, s]: the typeof tag, the number and the string.           *)
(***************************************************************************)
EXTENDS Integers, Sequences, FiniteSets, TLC

(***************************************************************************)
(* Bounds of the model.                                                    *)
(***************************************************************************)
\* The longest file content a write request carries, in UTF-16 code units.
MaxContentLen == 2

\* Math.random() draws one of the values k / RandomSteps, 0 <= k < RandomSteps.
RandomSteps == 4

\* The calculator operands of the reference specification are the integers
\* of at most this magnitude.
MaxOperand == 3

\* The calls that arrive while the server process runs.
MaxInFlight == 2

(***************************************************************************)
(* String helpers (String.prototype.startsWith, includes, Array.join).     *)
(***************************************************************************)
CharAt(s, i) == SubSeq(s, i, i)

StartsWith(s, p) == Len(p) <= Len(s) /\ SubSeq(s, 1, Len(p)) = p

Includes(s, sub) ==
  \E i \in 1..(Len(s) - Len(sub) + 1) : SubSeq(s, i, i + Len(sub) - 1) = sub

\* Below, CHOOSE val \in { e : v \in {x} } : TRUE is e with v bound to x, a
\* const v = x of the source: x is computed once, however often e uses v.
RECURSIVE Join(_, _)
Join(seq, sep) ==
  IF seq = <<>> THEN ""
  ELSE IF Len(seq) = 1 THEN seq[1]
  ELSE seq[1] \o sep \o Join(Tail(seq), sep)

\* The segments of s between the occurrences of "/" ("" for an empty one).
RECURSIVE SplitFrom(_, _, _)
SplitFrom(s, i, cur) ==
  IF i > Len(s) THEN <<cur>>
  ELSE IF CharAt(s, i) = "/" THEN <<cur>> \o SplitFrom(s, i + 1, "")
  ELSE SplitFrom(s, i + 1, cur \o CharAt(s, i))

SplitPath(s) == SplitFrom(s, 1, "")

(***************************************************************************)
(* JavaScript values.                                                      *)
(***************************************************************************)
Undef == [t |-> "undefined", n |-> 0, s |-> ""]
Num(k) == [t |-> "number", n |-> k, s |-> ""]
NaN == [t |-> "number", n |-> 0, s |-> "NaN"]
Str(x) == [t |-> "string", n |-> 0, s |-> x]

IsNaN(v) == v.t = "number" /\ v.s = "NaN"

\* !v : undefined, "", 0 and NaN are falsy.
Falsy(v) ==
  \/ v.t = "undefined"
  \/ v.t = "string" /\ v.s = ""
  \/ v.t = "number" /\ (v.n = 0 \/ IsNaN(v))

(***************************************************************************)
(* path.resolve and path.dirname (POSIX).                                  *)
(***************************************************************************)
\* process.cwd(): the directory the server was started in.
Cwd == "/app"

RECURSIVE NormalizeSegs(_, _)
NormalizeSegs(segs, stack) ==
  IF segs = <<>> THEN stack
  ELSE LET h == Head(segs) IN
       IF h = "" \/ h = "." THEN NormalizeSegs(Tail(segs), stack)
       ELSE IF h = ".."
            THEN NormalizeSegs(Tail(segs),
                   IF stack = <<>> THEN stack
                   ELSE SubSeq(stack, 1, Len(stack) - 1))
            ELSE NormalizeSegs(Tail(segs), Append(stack, h))

FromSegs(segs) == IF segs = <<>> THEN "/" ELSE "/" \o Join(segs, "/")

PathResolve(p) ==
  LET abs == IF StartsWith(p, "/") THEN p ELSE Cwd \o "/" \o p
  IN  FromSegs(NormalizeSegs(SplitPath(abs), <<>>))

\* path.dirname of a resolved (normalized, absolute) path.
PathDirname(p) ==
  LET segs == NormalizeSegs(SplitPath(p), <<>>)
  IN  IF segs = <<>> THEN "/" ELSE FromSegs(SubSeq(segs, 1, Len(segs) - 1))

\* The last segment of a resolved path (Dirent.name).
PathBasename(p) ==
  LET segs == NormalizeSegs(SplitPath(p), <<>>)
  IN  IF segs = <<>> THEN "" ELSE segs[Len(segs)]

\* The proper ancestors of a resolved path, "/" included.
Ancestors(p) ==
  LET segs == NormalizeSegs(SplitPath(p), <<>>)
  IN  { FromSegs(SubSeq(segs, 1, k)) : k \in 0..(Len(segs) - 1) }

\* The paths the requests of the model carry (InputPaths and RoundTripPaths
\* below) and the allowed directories.
KnownPaths ==
  {"/tmp/f", "f", "/tmp", "/tmp/../etc/passwd", "/tmpevil/f", "/tmp/d/f",
   "/tmp/d", Cwd}

\* path.resolve, path.dirname, the name and the ancestors of each of them,
\* computed once.
Resolved == [p \in KnownPaths |-> PathResolve(p)]

KnownResolved ==
  LET direct == { Resolved[p] : p \in KnownPaths }
  IN  direct \cup UNION { Ancestors(p) : p \in direct }

DirnameOf == [p \in KnownResolved |-> PathDirname(p)]

BasenameOf == [p \in KnownResolved |-> PathBasename(p)]

AncestorsOf == [p \in KnownResolved |-> Ancestors(p)]

(***************************************************************************)
(* UTF-8, the encoding of fs.writeFile(..., 'utf-8') and                   *)
(* fs.readFile(..., 'utf-8').                                              *)
(***************************************************************************)
\* The UTF-16 code unit a content character stands for: "a" is U+0061,
\* "H" the high surrogate U+D83D, "L" the low surrogate U+DE00 and "R" the
\* replacement character U+FFFD.
CodeUnitOf(c) ==
  CASE c = "a" -> 97
    [] c = "H" -> 55357
    [] c = "L" -> 56832
    [] c = "R" -> 65533

CharOfCodeUnit(u) ==
  CASE u = 97 -> "a"
    [] u = 55357 -> "H"
    [] u = 56832 -> "L"
    [] u = 65533 -> "R"

IsHighSurrogate(u) == 55296 <= u /\ u <= 56319
IsLowSurrogate(u) == 56320 <= u /\ u <= 57343

Utf8OfCodePoint(cp) ==
  IF cp < 128 THEN <<cp>>
  ELSE IF cp < 2048 THEN <<192 + (cp \div 64), 128 + (cp % 64)>>
  ELSE IF cp < 65536
       THEN <<224 + (cp \div 4096), 128 + ((cp \div 64) % 64), 128 + (cp % 64)>>
       ELSE <<240 + (cp \div 262144), 128 + ((cp \div 4096) % 64),
              128 + ((cp \div 64) % 64), 128 + (cp % 64)>>

\* A surrogate pair encodes one code point; an unpaired surrogate is written
\* as U+FFFD.
RECURSIVE Utf8EncodeFrom(_, _)
Utf8EncodeFrom(s, i) ==
  IF i > Len(s) THEN <<>>
  ELSE LET u == CodeUnitOf(CharAt(s, i)) IN
       IF IsHighSurrogate(u) /\ i < Len(s)
          /\ IsLowSurrogate(CodeUnitOf(CharAt(s, i + 1)))
       THEN Utf8OfCodePoint(65536 + (u - 55296) * 1024
                            + (CodeUnitOf(CharAt(s, i + 1)) - 56320))
            \o Utf8EncodeFrom(s, i + 2)
       ELSE IF IsHighSurrogate(u) \/ IsLowSurrogate(u)
            THEN Utf8OfCodePoint(65533) \o Utf8EncodeFrom(s, i + 1)
            ELSE Utf8OfCodePoint(u) \o Utf8EncodeFrom(s, i + 1)

Utf8Encode(s) == Utf8EncodeFrom(s, 1)

CharsOfCodePoint(cp) ==
  IF cp < 65536 THEN CharOfCodeUnit(cp)
  ELSE CharOfCodeUnit(55296 + ((cp - 65536) \div 1024))
       \o CharOfCodeUnit(56320 + ((cp - 65536) % 1024))

RECURSIVE Utf8DecodeFrom(_, _)
Utf8DecodeFrom(b, i) ==
  IF i > Len(b) THEN ""
  ELSE IF b[i] < 128 THEN CharsOfCodePoint(b[i]) \o Utf8DecodeFrom(b, i + 1)
  ELSE IF b[i] < 224
       THEN CharsOfCodePoint((b[i] - 192) * 64 + (b[i + 1] - 128))
            \o Utf8DecodeFrom(b, i + 2)
  ELSE IF b[i] < 240
       THEN CharsOfCodePoint((b[i] - 224) * 4096 + (b[i + 1] - 128) * 64
                             + (b[i + 2] - 128))
            \o Utf8DecodeFrom(b, i + 3)
       ELSE CharsOfCodePoint((b[i] - 240) * 262144 + (b[i + 1] - 128) * 4096
                             + (b[i + 2] - 128) * 64 + (b[i + 3] - 128))
            \o Utf8DecodeFrom(b, i + 4)

Utf8Decode(b) == Utf8DecodeFrom(b, 1)

\* Every string of at most n characters of the alphabet.
RECURSIVE StringsUpTo(_, _)
StringsUpTo(alphabet, n) ==
  IF n = 0 THEN {""}
  ELSE LET shorter == StringsUpTo(alphabet, n - 1)
       IN  shorter \cup { s \o c : s \in shorter, c \in alphabet }

\* The contents the round-trip requests write: "a", the surrogates "H" and
\* "L", alone and paired.
Contents == StringsUpTo({"a", "H", "L"}, MaxContentLen)

\* The UTF-8 bytes of each content, and the string each of them decodes
\* to, computed once.
Encoded == [c \in Contents |-> Utf8Encode(c)]

Decoded == [b \in { Encoded[c] : c \in Contents } |-> Utf8Decode(b)]

(***************************************************************************)
(* Requests, results and errors.                                           *)
(***************************************************************************)
\* The arguments of a tools/call request: `defined` is FALSE when the request
\* carries no arguments at all; an absent field is Undef.
ArgFields == {"operation", "a", "b", "location", "units", "path", "content"}

NoArgs == [defined |-> FALSE, f |-> [k \in ArgFields |-> Undef]]

MkArgs(operation, a, b, location, units, path, content) ==
  [defined |-> TRUE,
   f |-> [operation |-> operation, a |-> a, b |-> b, location |-> location,
          units |-> units, path |-> path, content |-> content]]

\* new Error(message), the TypeError of the runtime, new McpError(code, message).
NoError == [cls |-> "none", code |-> "", message |-> ""]
PlainError(message) == [cls |-> "Error", code |-> "", message |-> message]
TypeError(message) == [cls |-> "TypeError", code |-> "", message |-> message]
McpError(code, message) == [cls |-> "McpError", code |-> code, message |-> message]

\* Reading a property of undefined arguments.
UndefinedRead(field) ==
  TypeError("Cannot read properties of undefined (reading '" \o field \o "')")

\* The structured value a tool returns: CalculatorOutput, WeatherOutput or
\* FileOpsOutput, the fields of the other two at their defaults.
NoPayload ==
  [tool |-> "none", success |-> FALSE, operation |-> "", path |-> "",
   dataKind |-> "none", data |-> "", entries |-> {}, message |-> "",
   numKind |-> "none", num |-> 0, den |-> 1, root |-> 1,
   inputA |-> Undef, inputB |-> Undef,
   location |-> "", units |-> "", temperature |-> 0]

\* How a function ends: it returns a value or it throws.
Ret(payload) == [kind |-> "return", payload |-> payload, err |-> NoError]
Throw(err) == [kind |-> "throw", payload |-> NoPayload, err |-> err]

(***************************************************************************)
(* CalculatorTool.                                                         *)
(***************************************************************************)
CalcValidOperations ==
  <<"add", "subtract", "multiply", "divide", "power", "sqrt">>

SeqIncludes(seq, v) == v.t = "string" /\ \E i \in 1..Len(seq) : seq[i] = v.s

\* A validateInput without the checks of the divisor and of the radicand.
CalculatorValidateInputNoDomain(input) ==
  IF ~input.defined THEN UndefinedRead("operation")
  ELSE LET op == input.f.operation
           a == input.f.a
           b == input.f.b
       IN
       IF Falsy(op) THEN PlainError("Operation is required")
       ELSE IF ~SeqIncludes(CalcValidOperations, op)
       THEN PlainError("Invalid operation. Must be one of: "
                       \o Join(CalcValidOperations, ", "))
       ELSE IF a.t # "number" \/ IsNaN(a)
       THEN PlainError("Parameter \"a\" must be a valid number")
       ELSE IF op.s # "sqrt" /\ (b.t = "undefined" \/ b.t # "number" \/ IsNaN(b))
       THEN PlainError("Parameter \"b\" is required for " \o op.s \o " operation")
       ELSE NoError

\* A validateInput that asks no operation for its second operand.
CalculatorValidateInputNoSecondOperand(input) ==
  IF ~input.defined THEN UndefinedRead("operation")
  ELSE LET op == input.f.operation
           a == input.f.a
           b == input.f.b
       IN
       IF Falsy(op) THEN PlainError("Operation is required")
       ELSE IF ~SeqIncludes(CalcValidOperations, op)
       THEN PlainError("Invalid operation. Must be one of: "
                       \o Join(CalcValidOperations, ", "))
       ELSE IF a.t # "number" \/ IsNaN(a)
       THEN PlainError("Parameter \"a\" must be a valid number")
       ELSE IF op.s = "divide" /\ b.t = "number" /\ ~IsNaN(b) /\ b.n = 0
       THEN PlainError("Division by zero is not allowed")
       ELSE IF op.s = "sqrt" /\ a.n < 0
       THEN PlainError("Cannot calculate square root of negative number")
       ELSE NoError

\* A validateInput that makes the presence and type checks of every field
\* before the enum check of the operation.
CalculatorValidateInputByPhase(input) ==
  IF ~input.defined THEN UndefinedRead("operation")
  ELSE LET op == input.f.operation
           a == input.f.a
           b == input.f.b
       IN
       IF Falsy(op) THEN PlainError("Operation is required")
       ELSE IF a.t # "number" \/ IsNaN(a)
       THEN PlainError("Parameter \"a\" must be a valid number")
       ELSE IF ~SeqIncludes(CalcValidOperations, op)
       THEN PlainError("Invalid operation. Must be one of: "
                       \o Join(CalcValidOperations, ", "))
       ELSE IF op.s # "sqrt" /\ (b.t = "undefined" \/ b.t # "number" \/ IsNaN(b))
       THEN PlainError("Parameter \"b\" is required for " \o op.s \o " operation")
       ELSE IF op.s = "divide" /\ b.t = "number" /\ ~IsNaN(b) /\ b.n = 0
       THEN PlainError("Division by zero is not allowed")
       ELSE IF op.s = "sqrt" /\ a.n < 0
       THEN PlainError("Cannot calculate square root of negative number")
       ELSE NoError

\* The error validateInput throws, NoError when it returns.
CalculatorValidateInput(input) ==
  IF ~input.defined THEN UndefinedRead("operation")
  ELSE LET op == input.f.operation
           a == input.f.a
           b == input.f.b
       IN
       IF Falsy(op) THEN PlainError("Operation is required")
       ELSE IF ~SeqIncludes(CalcValidOperations, op)
       THEN PlainError("Invalid operation. Must be one of: "
                       \o Join(CalcValidOperations, ", "))
       ELSE IF a.t # "number" \/ IsNaN(a)
       THEN PlainError("Parameter \"a\" must be a valid number")
       ELSE IF op.s # "sqrt" /\ (b.t = "undefined" \/ b.t # "number" \/ IsNaN(b))
       THEN PlainError("Parameter \"b\" is required for " \o op.s \o " operation")
       ELSE IF op.s = "divide" /\ b.t = "number" /\ ~IsNaN(b) /\ b.n = 0
       THEN PlainError("Division by zero is not allowed")
       ELSE IF op.s = "sqrt" /\ a.n < 0
       THEN PlainError("Cannot calculate square root of negative number")
       ELSE NoError

RECURSIVE Gcd(_, _)
Gcd(x, y) == IF y = 0 THEN x ELSE Gcd(y, x % y)

Abs(x) == IF x < 0 THEN -x ELSE x

\* The number num/den in lowest terms, den > 0.
Rational(num, den) ==
  LET g == Gcd(Abs(num), Abs(den))
      sgn == IF den < 0 THEN -1 ELSE 1
  IN  [num |-> sgn * (num \div g), den |-> sgn * (den \div g)]

RECURSIVE IntPow(_, _)
IntPow(x, k) == IF k = 0 THEN 1 ELSE x * IntPow(x, k - 1)

RECURSIVE IsPowerOfTwo(_)
IsPowerOfTwo(d) == d = 1 \/ (d > 1 /\ d % 2 = 0 /\ IsPowerOfTwo(d \div 2))

\* A number (an IEEE-754 double) that an operation on small integers gives:
\* "exact" is num/den itself; "rounded" is the double nearest to the root-th
\* root of num/den, which that root is not; "infinity" is Infinity.
Double(kind, num, den, root) ==
  [numKind |-> kind, num |-> num, den |-> den, root |-> root]

\* The double of the quotient n/d of two integers: the quotient itself when
\* its denominator in lowest terms is a power of two, else the nearest double.
DoubleQuotient(n, d) ==
  LET q == Rational(n, d) IN
  Double(IF IsPowerOfTwo(q.den) THEN "exact" ELSE "rounded", q.num, q.den, 1)

\* The / of two integers: Infinity or NaN when the divisor is 0.
DoubleDivide(n, d) ==
  IF d # 0 THEN DoubleQuotient(n, d)
  ELSE IF n = 0 THEN Double("nan", 0, 1, 1)
  ELSE Double("infinity", IF n < 0 THEN -1 ELSE 1, 1, 1)

\* Math.pow on integers.
DoublePow(x, k) ==
  IF k >= 0 THEN DoubleQuotient(IntPow(x, k), 1)
  ELSE IF x = 0 THEN Double("infinity", 1, 1, 1)
  ELSE DoubleQuotient(1, IntPow(x, -k))

\* Math.sqrt on an integer: NaN below 0.
DoubleSqrt(x) ==
  IF x < 0 THEN Double("nan", 0, 1, 1)
  ELSE IF \E r \in 0..x : r * r = x
  THEN Double("exact", CHOOSE r \in 0..x : r * r = x, 1, 1)
  ELSE Double("rounded", x, 1, 2)

\* A switch that subtracts and divides the wrong way round.
CalculatorResultSwapped(op, a, b) ==
  CASE op = "add" -> DoubleQuotient(a + b, 1)
    [] op = "subtract" -> DoubleQuotient(b - a, 1)
    [] op = "multiply" -> DoubleQuotient(a * b, 1)
    [] op = "divide" -> DoubleDivide(b, a)
    [] op = "power" -> DoublePow(a, b)
    [] op = "sqrt" -> DoubleSqrt(a)

CalculatorResult(op, a, b) ==
  CASE op = "add" -> DoubleQuotient(a + b, 1)
    [] op = "subtract" -> DoubleQuotient(a - b, 1)
    [] op = "multiply" -> DoubleQuotient(a * b, 1)
    [] op = "divide" -> DoubleDivide(a, b)
    [] op = "power" -> DoublePow(a, b)
    [] op = "sqrt" -> DoubleSqrt(a)

CalculatorCalculate(input) ==
  CHOOSE val \in {
  IF e # NoError THEN Throw(e)
  ELSE CHOOSE val \in {
       Ret([NoPayload EXCEPT !.tool = "calculator", !.numKind = r.numKind,
                             !.num = r.num, !.den = r.den, !.root = r.root,
                             !.operation = input.f.operation.s,
                             !.inputA = input.f.a, !.inputB = input.f.b])
       : r \in {CalculatorResult(input.f.operation.s, input.f.a.n, input.f.b.n)} } : TRUE
  : e \in {CalculatorValidateInput(input)} } : TRUE

(***************************************************************************)
(* WeatherTool.                                                            *)
(***************************************************************************)
\* The white space String.prototype.trim removes, of which the requests of
\* the model use the space and the tab.
WhiteSpace == {" ", "\t"}

RECURSIVE TrimStart(_)
TrimStart(s) ==
  IF s # "" /\ CharAt(s, 1) \in WhiteSpace
  THEN TrimStart(SubSeq(s, 2, Len(s))) ELSE s

RECURSIVE TrimEnd(_)
TrimEnd(s) ==
  IF s # "" /\ CharAt(s, Len(s)) \in WhiteSpace
  THEN TrimEnd(SubSeq(s, 1, Len(s) - 1)) ELSE s

Trim(s) == TrimEnd(TrimStart(s))

WeatherValidUnits == <<"celsius", "fahrenheit">>

\* A validateInput that does not trim the location before it tests it.
WeatherValidateInputNoTrim(input) ==
  IF ~input.defined THEN UndefinedRead("location")
  ELSE LET location == input.f.location
           units == input.f.units
       IN
       IF Falsy(location) \/ location.t # "string"
       THEN PlainError("Location is required and must be a string")
       ELSE IF Len(location.s) = 0
       THEN PlainError("Location cannot be empty")
       ELSE IF ~Falsy(units) /\ ~SeqIncludes(WeatherValidUnits, units)
       THEN PlainError("Units must be either \"celsius\" or \"fahrenheit\"")
       ELSE NoError

WeatherValidateInput(input) ==
  IF ~input.defined THEN UndefinedRead("location")
  ELSE LET location == input.f.location
           units == input.f.units
       IN
       IF Falsy(location) \/ location.t # "string"
       THEN PlainError("Location is required and must be a string")
       ELSE IF Len(Trim(location.s)) = 0
       THEN PlainError("Location cannot be empty")
       ELSE IF ~Falsy(units) /\ ~SeqIncludes(WeatherValidUnits, units)
       THEN PlainError("Units must be either \"celsius\" or \"fahrenheit\"")
       ELSE NoError

\* Math.round(x) for x = twice / 2: the nearest integer, a half rounded up.
RoundHalves(twice) == (twice + 1) \div 2

\* Math.round(baseTemp + (Math.random() * tempVariation - tempVariation / 2))
\* for Math.random() = k / RandomSteps.
WeatherTemperature(isCelsius, k) ==
  LET baseTemp == IF isCelsius THEN 20 ELSE 68
      tempVariation == IF isCelsius THEN 10 ELSE 18
  IN  RoundHalves(2 * baseTemp - tempVariation
                  + (2 * tempVariation * k) \div RandomSteps)

\* A generateWeatherData that trims the location it returns.
WeatherGenerateWeatherDataTrims(location, units, temperature) ==
  [NoPayload EXCEPT !.tool = "weather", !.location = Trim(location),
                    !.temperature = temperature,
                    !.units = IF units = "celsius" THEN "Celsius"
                              ELSE "Fahrenheit"]

\* generateWeatherData with the temperature it drew; the other random fields
\* (condition, humidity, wind speed, forecast) and the timestamp are not kept.
WeatherGenerateWeatherData(location, units, temperature) ==
  [NoPayload EXCEPT !.tool = "weather", !.location = location,
                    !.temperature = temperature,
                    !.units = IF units = "celsius" THEN "Celsius"
                              ELSE "Fahrenheit"]

\* input.units || 'celsius'
WeatherUnits(input) ==
  IF Falsy(input.f.units) THEN "celsius" ELSE input.f.units.s

WeatherGetWeather(input, temperature) ==
  CHOOSE val \in {
  IF e # NoError THEN Throw(e)
  ELSE Ret(WeatherGenerateWeatherData(input.f.location.s, WeatherUnits(input),
                                      temperature))
  : e \in {WeatherValidateInput(input)} } : TRUE

(***************************************************************************)
(* The file system: the directories and the bytes of each file, by         *)
(* resolved path.  Each fs.* function gives the errno it fails with ("" on *)
(* success).                                                               *)
(***************************************************************************)
NodeKind(disk, p) ==
  IF p \in disk.dirs THEN "dir"
  ELSE IF p \in DOMAIN disk.files THEN "file"
  ELSE "none"

\* Why the path cannot be reached: an ancestor is a file, or nothing is there.
LookupErrno(disk, p) ==
  IF \E a \in AncestorsOf[p] : a \in DOMAIN disk.files THEN "ENOTDIR"
  ELSE IF NodeKind(disk, p) = "none" THEN "ENOENT"
  ELSE ""

FsReadFile(disk, p) ==
  CHOOSE val \in {
  IF e # "" THEN [errno |-> e, data |-> ""]
  ELSE IF NodeKind(disk, p) = "dir" THEN [errno |-> "EISDIR", data |-> ""]
  ELSE [errno |-> "", data |-> Decoded[disk.files[p]]]
  : e \in {LookupErrno(disk, p)} } : TRUE

\* fs.mkdir(directory, { recursive: true })
FsMkdirRecursive(disk, d) ==
  IF \E a \in AncestorsOf[d] : a \in DOMAIN disk.files
  THEN [errno |-> "ENOTDIR", disk |-> disk]
  ELSE IF NodeKind(disk, d) = "file" THEN [errno |-> "EEXIST", disk |-> disk]
  ELSE [errno |-> "",
        disk |-> [disk EXCEPT !.dirs = @ \cup AncestorsOf[d] \cup {d}]]

\* A writeFile that leaves the bytes of a file it finds as they are.
FsWriteFileKeeps(disk, p, content) ==
  IF content.t # "string" THEN [errno |-> "ERR_INVALID_ARG_TYPE", disk |-> disk]
  ELSE IF \E a \in AncestorsOf[p] : a \in DOMAIN disk.files
  THEN [errno |-> "ENOTDIR", disk |-> disk]
  ELSE IF DirnameOf[p] \notin disk.dirs THEN [errno |-> "ENOENT", disk |-> disk]
  ELSE IF NodeKind(disk, p) = "dir" THEN [errno |-> "EISDIR", disk |-> disk]
  ELSE [errno |-> "",
        disk |-> [disk EXCEPT !.files =
                    [q \in DOMAIN disk.files \cup {p} |->
                       IF q = p /\ p \notin DOMAIN disk.files
                       THEN Encoded[content.s] ELSE disk.files[q]]]]

\* fs.writeFile(filePath, content, 'utf-8')
FsWriteFile(disk, p, content) ==
  IF content.t # "string" THEN [errno |-> "ERR_INVALID_ARG_TYPE", disk |-> disk]
  ELSE IF \E a \in AncestorsOf[p] : a \in DOMAIN disk.files
  THEN [errno |-> "ENOTDIR", disk |-> disk]
  ELSE IF DirnameOf[p] \notin disk.dirs THEN [errno |-> "ENOENT", disk |-> disk]
  ELSE IF NodeKind(disk, p) = "dir" THEN [errno |-> "EISDIR", disk |-> disk]
  ELSE [errno |-> "",
        disk |-> [disk EXCEPT !.files =
                    [q \in DOMAIN disk.files \cup {p} |->
                       IF q = p THEN Encoded[content.s] ELSE disk.files[q]]]]

\* An unlink that removes with the file every file below its directory.
FsUnlinkTree(disk, p) ==
  CHOOSE val \in {
  IF e # "" THEN [errno |-> e, disk |-> disk]
  ELSE IF NodeKind(disk, p) = "dir" THEN [errno |-> "EISDIR", disk |-> disk]
  ELSE [errno |-> "",
        disk |-> [disk EXCEPT !.files =
                    [q \in { x \in DOMAIN disk.files :
                               DirnameOf[p] \notin AncestorsOf[x] }
                       |-> disk.files[q]]]]
  : e \in {LookupErrno(disk, p)} } : TRUE

\* An unlink that reports success and leaves the file in place.
FsUnlinkKeeps(disk, p) ==
  CHOOSE val \in {
  IF e # "" THEN [errno |-> e, disk |-> disk]
  ELSE IF NodeKind(disk, p) = "dir" THEN [errno |-> "EISDIR", disk |-> disk]
  ELSE [errno |-> "", disk |-> disk]
  : e \in {LookupErrno(disk, p)} } : TRUE

FsUnlink(disk, p) ==
  CHOOSE val \in {
  IF e # "" THEN [errno |-> e, disk |-> disk]
  ELSE IF NodeKind(disk, p) = "dir" THEN [errno |-> "EISDIR", disk |-> disk]
  ELSE [errno |-> "",
        disk |-> [disk EXCEPT !.files =
                    [q \in DOMAIN disk.files \ {p} |-> disk.files[q]]]]
  : e \in {LookupErrno(disk, p)} } : TRUE

\* fs.readdir(dirPath, { withFileTypes: true }), each entry with its prefix.
FsReaddir(disk, p) ==
  CHOOSE val \in {
  IF e # "" THEN [errno |-> e, entries |-> {}]
  ELSE IF NodeKind(disk, p) = "file" THEN [errno |-> "ENOTDIR", entries |-> {}]
  ELSE [errno |-> "",
        entries |->
          { "[DIR] " \o BasenameOf[q] :
              q \in { d \in disk.dirs : d # "/" /\ DirnameOf[d] = p } }
          \cup
          { "[FILE] " \o BasenameOf[q] :
              q \in { f \in DOMAIN disk.files : DirnameOf[f] = p } }]
  : e \in {LookupErrno(disk, p)} } : TRUE

\* fs.access(filePath)
FsAccess(disk, p) == LookupErrno(disk, p)

(***************************************************************************)
(* FileOpsTool.                                                            *)
(***************************************************************************)
\* this.allowedDirectories, by default /tmp and the working directory.
AllowedDirectories == <<"/tmp", Cwd>>

\* isAllowed of validatePath: some allowed directory, resolved, is a string
\* prefix of the resolved path.
FileOpsIsAllowed(resolvedPath) ==
  \E i \in 1..Len(AllowedDirectories) :
    StartsWith(resolvedPath, Resolved[AllowedDirectories[i]])

\* The error validatePath throws, NoError when it returns the resolved path.
FileOpsValidatePath(filePath) ==
  IF ~FileOpsIsAllowed(Resolved[filePath])
  THEN PlainError("Access denied. Path must be within allowed directories: "
                  \o Join(AllowedDirectories, ", "))
  ELSE NoError

FileOpsValidOperations == <<"read", "write", "list", "delete", "exists">>

\* A validateInput that checks the content before the path.
FileOpsValidateInputContentFirst(input) ==
  IF ~input.defined THEN UndefinedRead("operation")
  ELSE LET op == input.f.operation
           path == input.f.path
       IN
       IF Falsy(op) THEN PlainError("Operation is required")
       ELSE IF ~SeqIncludes(FileOpsValidOperations, op)
       THEN PlainError("Invalid operation. Must be one of: "
                       \o Join(FileOpsValidOperations, ", "))
       ELSE IF op.s = "write" /\ input.f.content.t = "undefined"
       THEN PlainError("Content is required for write operation")
       ELSE IF Falsy(path) \/ path.t # "string"
       THEN PlainError("Path is required and must be a string")
       ELSE NoError

\* A validateInput that does not ask a write for its content.
FileOpsValidateInputNoContent(input) ==
  IF ~input.defined THEN UndefinedRead("operation")
  ELSE LET op == input.f.operation
           path == input.f.path
       IN
       IF Falsy(op) THEN PlainError("Operation is required")
       ELSE IF ~SeqIncludes(FileOpsValidOperations, op)
       THEN PlainError("Invalid operation. Must be one of: "
                       \o Join(FileOpsValidOperations, ", "))
       ELSE IF Falsy(path) \/ path.t # "string"
       THEN PlainError("Path is required and must be a string")
       ELSE NoError

FileOpsValidateInput(input) ==
  IF ~input.defined THEN UndefinedRead("operation")
  ELSE LET op == input.f.operation
           path == input.f.path
       IN
       IF Falsy(op) THEN PlainError("Operation is required")
       ELSE IF ~SeqIncludes(FileOpsValidOperations, op)
       THEN PlainError("Invalid operation. Must be one of: "
                       \o Join(FileOpsValidOperations, ", "))
       ELSE IF Falsy(path) \/ path.t # "string"
       THEN PlainError("Path is required and must be a string")
       ELSE IF op.s = "write" /\ input.f.content.t = "undefined"
       THEN PlainError("Content is required for write operation")
       ELSE NoError

\* readFile, writeFile, listDirectory, deleteFile, fileExists: the message of
\* the Error each throws ("" when it returns), the file system it leaves and
\* the errno of the fs call that failed.
FileOpsReadFile(disk, p) ==
  CHOOSE val \in {
  [message |-> IF r.errno = "" THEN ""
               ELSE IF r.errno = "ENOENT" THEN "File not found: " \o p
               ELSE "Failed to read file: " \o r.errno,
   data |-> r.data, errno |-> r.errno, disk |-> disk]
  : r \in {FsReadFile(disk, p)} } : TRUE

FileOpsWriteFile(disk, p, content) ==
  CHOOSE val \in {
  IF m.errno # ""
  THEN [message |-> "Failed to write file: " \o m.errno,
        errno |-> m.errno, disk |-> m.disk]
  ELSE CHOOSE val \in {
       [message |-> IF w.errno = "" THEN ""
                    ELSE "Failed to write file: " \o w.errno,
        errno |-> w.errno, disk |-> w.disk]
       : w \in {FsWriteFile(m.disk, p, content)} } : TRUE
  : m \in {FsMkdirRecursive(disk, DirnameOf[p])} } : TRUE

FileOpsListDirectory(disk, p) ==
  CHOOSE val \in {
  [message |-> IF r.errno = "" THEN ""
               ELSE IF r.errno = "ENOENT" THEN "Directory not found: " \o p
               ELSE "Failed to list directory: " \o r.errno,
   entries |-> r.entries, errno |-> r.errno, disk |-> disk]
  : r \in {FsReaddir(disk, p)} } : TRUE

FileOpsDeleteFile(disk, p) ==
  CHOOSE val \in {
  [message |-> IF r.errno = "" THEN ""
               ELSE IF r.errno = "ENOENT" THEN "File not found: " \o p
               ELSE "Failed to delete file: " \o r.errno,
   errno |-> r.errno, disk |-> r.disk]
  : r \in {FsUnlink(disk, p)} } : TRUE

\* A check that opens the path for appending and so creates a missing file.
FileOpsFileExistsCreates(disk, p) ==
  [exists |-> FsAccess(disk, p) = "",
   disk |-> IF FsAccess(disk, p) = "ENOENT" /\ DirnameOf[p] \in disk.dirs
            THEN [disk EXCEPT !.files =
                    [q \in DOMAIN disk.files \cup {p} |->
                       IF q = p THEN <<>> ELSE disk.files[q]]]
            ELSE disk]

\* fileExists: its answer, and the file system it leaves.
FileOpsFileExists(disk, p) ==
  [exists |-> FsAccess(disk, p) = "", disk |-> disk]

\* performOperation: how it ends, the file system it leaves, whether it
\* called the file system at all and the errno of the fs call that failed.
FileOpsPerformOperation(input, disk) ==
  CHOOSE val \in {
  IF e # NoError
  THEN [out |-> Throw(e), disk |-> disk, touched |-> FALSE, errno |-> ""]
  ELSE
  CHOOSE val \in {
  IF d # NoError
  THEN [out |-> Throw(d), disk |-> disk, touched |-> FALSE, errno |-> ""]
  ELSE
  LET op == input.f.operation.s
      validatedPath == Resolved[input.f.path.s]
      result == [NoPayload EXCEPT !.tool = "file_operations",
                                  !.success = FALSE, !.operation = op,
                                  !.path = validatedPath]
      failed(r) == [out |-> Ret([result EXCEPT !.message = r.message]),
                    disk |-> r.disk, touched |-> TRUE, errno |-> r.errno]
  IN
  CASE op = "read" ->
         CHOOSE val \in {
         IF r.message # "" THEN failed(r)
         ELSE [out |-> Ret([result EXCEPT !.success = TRUE,
                                          !.dataKind = "string",
                                          !.data = r.data,
                                          !.message = "File read successfully"]),
               disk |-> disk, touched |-> TRUE, errno |-> ""]
         : r \in {FileOpsReadFile(disk, validatedPath)} } : TRUE
    [] op = "write" ->
         CHOOSE val \in {
         IF r.message # "" THEN failed(r)
         ELSE [out |-> Ret([result EXCEPT !.success = TRUE,
                                          !.message = "File written successfully"]),
               disk |-> r.disk, touched |-> TRUE, errno |-> ""]
         : r \in {FileOpsWriteFile(disk, validatedPath, input.f.content)} } : TRUE
    [] op = "list" ->
         CHOOSE val \in {
         IF r.message # "" THEN failed(r)
         ELSE [out |-> Ret([result EXCEPT !.success = TRUE,
                                          !.dataKind = "list",
                                          !.entries = r.entries,
                                          !.message = "Found "
                                            \o ToString(Cardinality(r.entries))
                                            \o " entries"]),
               disk |-> disk, touched |-> TRUE, errno |-> ""]
         : r \in {FileOpsListDirectory(disk, validatedPath)} } : TRUE
    [] op = "delete" ->
         CHOOSE val \in {
         IF r.message # "" THEN failed(r)
         ELSE [out |-> Ret([result EXCEPT !.success = TRUE,
                                          !.message = "File deleted successfully"]),
               disk |-> r.disk, touched |-> TRUE, errno |-> ""]
         : r \in {FileOpsDeleteFile(disk, validatedPath)} } : TRUE
    [] op = "exists" ->
         CHOOSE val \in {
         LET text == IF r.exists THEN "File exists" ELSE "File does not exist"
         IN  [out |-> Ret([result EXCEPT !.success = TRUE,
                                         !.dataKind = "string",
                                         !.data = text, !.message = text]),
              disk |-> r.disk, touched |-> TRUE, errno |-> ""]
         : r \in {FileOpsFileExists(disk, validatedPath)} } : TRUE
  : d \in {FileOpsValidatePath(input.f.path.s)} } : TRUE
  : e \in {FileOpsValidateInput(input)} } : TRUE

(***************************************************************************)
(* MCPServer: the tool definitions, the per-tool handlers and the two      *)
(* request handlers.                                                       *)
(***************************************************************************)
CalculatorToolDefinition ==
  [name |-> "calculator",
   properties |-> <<"operation", "a", "b">>,
   required |-> <<"operation", "a">>]

WeatherToolDefinition ==
  [name |-> "weather",
   properties |-> <<"location", "units">>,
   required |-> <<"location">>]

FileOpsToolDefinition ==
  [name |-> "file_operations",
   properties |-> <<"operation", "path", "content">>,
   required |-> <<"operation", "path">>]

\* A list that advertises a tool the switch has no case for.
ListToolsHandlerExtra ==
  <<CalculatorToolDefinition, WeatherToolDefinition, FileOpsToolDefinition,
    [CalculatorToolDefinition EXCEPT !.name = "nonexistent"]>>

\* A list that names the weather tool twice and file_operations never.
ListToolsHandlerDuplicate ==
  <<CalculatorToolDefinition, WeatherToolDefinition, WeatherToolDefinition>>

\* The ListToolsRequestSchema handler.
ListToolsHandler ==
  <<CalculatorToolDefinition, WeatherToolDefinition, FileOpsToolDefinition>>

\* What one run of a handler did besides ending: the file system it leaves,
\* the handler it entered, the error the tool raised inside it, whether the
\* file system was called and the errno of the fs call that failed.
Ran(out, disk, invoked, raised, touched, errno) ==
  [out |-> out, disk |-> disk, invoked |-> invoked, raised |-> raised,
   touched |-> touched, errno |-> errno]

\* A catch that logs the error and returns nothing.
HandleCalculatorSwallows(args, disk) ==
  CHOOSE val \in {
  IF r.kind = "throw"
  THEN Ran([kind |-> "none", payload |-> NoPayload, err |-> NoError],
           disk, "calculator", r.err, FALSE, "")
  ELSE Ran(r, disk, "calculator", NoError, FALSE, "")
  : r \in {CalculatorCalculate(args)} } : TRUE

HandleCalculator(args, disk) ==
  CHOOSE val \in {
  IF r.kind = "throw"
  THEN Ran(Throw(McpError("InvalidParams",
                          "Calculator error: " \o r.err.message)),
           disk, "calculator", r.err, FALSE, "")
  ELSE Ran(r, disk, "calculator", NoError, FALSE, "")
  : r \in {CalculatorCalculate(args)} } : TRUE

\* A catch that throws with a code of its own.
HandleWeatherOwnCode(args, disk, temperature) ==
  CHOOSE val \in {
  IF r.kind = "throw"
  THEN Ran(Throw(McpError("ValidationError",
                          "Weather error: " \o r.err.message)),
           disk, "weather", r.err, FALSE, "")
  ELSE Ran(r, disk, "weather", NoError, FALSE, "")
  : r \in {WeatherGetWeather(args, temperature)} } : TRUE

HandleWeather(args, disk, temperature) ==
  CHOOSE val \in {
  IF r.kind = "throw"
  THEN Ran(Throw(McpError("InvalidParams", "Weather error: " \o r.err.message)),
           disk, "weather", r.err, FALSE, "")
  ELSE Ran(r, disk, "weather", NoError, FALSE, "")
  : r \in {WeatherGetWeather(args, temperature)} } : TRUE

\* No try/catch: the tool's error leaves the handler as it is.
HandleFileOpsNoCatch(args, disk) ==
  CHOOSE val \in {
  Ran(r.out, r.disk, "file_operations",
      IF r.out.kind = "throw" THEN r.out.err ELSE NoError, r.touched, r.errno)
  : r \in {FileOpsPerformOperation(args, disk)} } : TRUE

HandleFileOps(args, disk) ==
  CHOOSE val \in {
  IF r.out.kind = "throw"
  THEN Ran(Throw(McpError("InvalidParams",
                          "File operations error: " \o r.out.err.message)),
           r.disk, "file_operations", r.out.err, r.touched, r.errno)
  ELSE Ran(r.out, r.disk, "file_operations", NoError, r.touched, r.errno)
  : r \in {FileOpsPerformOperation(args, disk)} } : TRUE

\* A switch that loses the weather case once the file system holds a file.
CallToolSwitchUnregisters(name, args, disk, temperature) ==
  CASE name = "calculator" -> HandleCalculator(args, disk)
    [] name = "weather" /\ DOMAIN disk.files = {} ->
         HandleWeather(args, disk, temperature)
    [] name = "file_operations" -> HandleFileOps(args, disk)
    [] OTHER -> Ran(Throw(McpError("MethodNotFound", "Unknown tool: " \o name)),
                    disk, "none", NoError, FALSE, "")

\* The switch on the tool name, inside the try.
CallToolSwitch(name, args, disk, temperature) ==
  CASE name = "calculator" -> HandleCalculator(args, disk)
    [] name = "weather" -> HandleWeather(args, disk, temperature)
    [] name = "file_operations" -> HandleFileOps(args, disk)
    [] OTHER -> Ran(Throw(McpError("MethodNotFound", "Unknown tool: " \o name)),
                    disk, "none", NoError, FALSE, "")

\* A catch without the instanceof test: every error becomes InternalError.
CallToolCatchWrapsAll(r) ==
  IF r.out.kind = "throw"
  THEN [r EXCEPT !.out = Throw(McpError("InternalError",
                                        "Tool execution failed: "
                                        \o r.out.err.message))]
  ELSE r

\* The catch: an McpError is rethrown, any other error becomes InternalError.
CallToolCatch(r) ==
  IF r.out.kind = "throw" /\ r.out.err.cls # "McpError"
  THEN [r EXCEPT !.out = Throw(McpError("InternalError",
                                        "Tool execution failed: "
                                        \o r.out.err.message))]
  ELSE r

\* The CallToolRequestSchema handler.
CallToolHandler(name, args, disk, temperature) ==
  CallToolCatch(CallToolSwitch(name, args, disk, temperature))

\* The response to the request: the result the handler returned, or the error
\* it threw.
NoResponse == [result |-> NoPayload, error |-> NoError]

ResponseOf(out) ==
  [result |-> IF out.kind = "return" THEN out.payload ELSE NoPayload,
   error |-> IF out.kind = "throw" THEN out.err ELSE NoError]

(***************************************************************************)
(* The requests the clients of the model send.                             *)
(***************************************************************************)
CalculatorArgs ==
  {NoArgs} \cup
  { MkArgs(op, a, b, Undef, Undef, Undef, Undef) :
      op \in {Undef, Str(""), Str("add"), Str("divide"), Str("sqrt"),
              Str("modulo")},
      a \in {Undef, Num(4), Num(-1), Str("4"), NaN},
      b \in {Undef, Num(0), Num(2), Str("2")} }

WeatherArgs ==
  {NoArgs} \cup
  { MkArgs(Undef, Undef, Undef, location, units, Undef, Undef) :
      location \in {Undef, Str(""), Str(" "), Str(" \t"), Str("Paris"),
                    Str(" Paris"), Num(7)},
      units \in {Undef, Str(""), Str("celsius"), Str("fahrenheit"),
                 Str("kelvin"), Num(7)} }

\* /tmp/f is under /tmp and f under the working directory; /tmp is a base
\* itself; /tmp/../etc/passwd leaves /tmp through ".."; /tmpevil/f is in a
\* sibling of /tmp whose name begins with "tmp".
InputPaths == {"/tmp/f", "f", "/tmp", "/tmp/../etc/passwd", "/tmpevil/f"}

FileOpsArgs ==
  {NoArgs} \cup
  { MkArgs(op, Undef, Undef, Undef, Undef, path, Undef) :
      op \in {Undef, Str("chmod")}, path \in {Undef, Str("/tmp/f")} }
  \cup
  { MkArgs(Str(op), Undef, Undef, Undef, Undef, path, Undef) :
      op \in {"read", "list", "delete", "exists", "write"},
      path \in {Undef, Num(7)} \cup { Str(p) : p \in InputPaths } }
  \cup
  { MkArgs(Str("write"), Undef, Undef, Undef, Undef, Str(p), Str("a")) :
      p \in InputPaths }
  \cup
  { MkArgs(Str(op), Undef, Undef, Undef, Undef, Str("/tmp/f"), Num(7)) :
      op \in {"read", "write"} }
  \cup
  { MkArgs(Str(""), Undef, Undef, Undef, Undef, Str("/tmp/f"), Undef) }

UnknownToolNames == {"nonexistent", "", "Calculator"}

UnknownToolArgs ==
  {NoArgs, MkArgs(Str("add"), Num(4), Num(2), Undef, Undef, Undef, Undef)}

\* /tmp/d/f is in a directory that the first write creates.
RoundTripPaths == {"/tmp/f", "/tmp/d/f"}

RoundTripArgs ==
  { MkArgs(Str(op), Undef, Undef, Undef, Undef, Str(p), Undef) :
      op \in {"read", "delete"}, p \in RoundTripPaths }
  \cup
  { MkArgs(Str("write"), Undef, Undef, Undef, Undef, Str(p), Str(c)) :
      p \in RoundTripPaths, c \in Contents }

(***************************************************************************)
(* The state: the file system, the last request and its response, the      *)
(* answer to listTools when it was the last request, what the last call    *)
(* did, and, in the                                                        *)
(* round-trip specification, the last successful write not yet followed    *)
(* by a write or delete of its path; in the delete specification, the last *)
(* successful delete not yet followed by a write request for its path.     *)
(* The server specification adds the state of the process and the calls    *)
(* whose handler was entered.                                              *)
(***************************************************************************)
VARIABLES disk, req, resp, listed, ran, lastWrite, lastDelete, process, calls

vars == <<disk, req, resp, listed, ran, lastWrite, lastDelete, process, calls>>

NoRequest == [kind |-> "none", name |-> "", args |-> NoArgs]
NoRun == [invoked |-> "none", raised |-> NoError, touched |-> FALSE, errno |-> ""]
NoWrite == [path |-> "", content |-> ""]
NoDelete == [path |-> "", below |-> FALSE]

\* The process: main() awaits start() ("starting"), the server is connected
\* ("running"), a signal handler awaits server.close() ("closing"), the
\* close has completed ("closed"), or process.exit was called ("exited", with
\* its status).
Running == [phase |-> "running", closed |-> FALSE, exitCode |-> 0]

\* The calls whose handler was entered, by the order of their arrival: where
\* each is and, once it is produced, its response.
CallIds == 1..MaxInFlight
NoCall == [pc |-> "idle", args |-> NoArgs, resp |-> NoResponse]
NoCalls == [i \in CallIds |-> NoCall]

\* The file system the server starts on: the allowed directories exist, and
\* /etc/passwd, outside them, exists or not.
InitialDisks ==
  { [dirs |-> {"/", "/tmp", Cwd, "/etc"},
     files |-> [q \in withPasswd |-> Encoded["a"]]] :
       withPasswd \in {{}, {"/etc/passwd"}} }

Init ==
  /\ disk \in InitialDisks
  /\ req = NoRequest
  /\ resp = NoResponse
  /\ listed = <<>>
  /\ ran = NoRun
  /\ lastWrite = NoWrite
  /\ lastDelete = NoDelete
  /\ process = Running
  /\ calls = NoCalls

\* A tools/list request and its response.
ListTools ==
  /\ process.phase = "running"
  /\ UNCHANGED <<process, calls>>
  /\ req' = [kind |-> "list", name |-> "", args |-> NoArgs]
  /\ listed' = ListToolsHandler
  /\ resp' = NoResponse
  /\ ran' = NoRun
  /\ UNCHANGED <<disk, lastWrite, lastDelete>>

\* The write that the next read of its path must give back: set by a write
\* that succeeded, dropped by any other write or delete of that path.
TrackWrite(name, args, r, last) ==
  IF name = "file_operations" /\ r.touched
     /\ args.f.operation.s \in {"write", "delete"}
  THEN LET p == Resolved[args.f.path.s] IN
       IF args.f.operation.s = "write" /\ r.out.payload.success
       THEN [path |-> p, content |-> args.f.content.s]
       ELSE IF last.path = p THEN NoWrite ELSE last
  ELSE last

\* The path of the last delete that succeeded, dropped by a write request for
\* that path; below records a write request for a path under it since.
TrackDelete(name, args, r, last) ==
  IF name = "file_operations" /\ r.touched
     /\ args.f.operation.s \in {"write", "delete"}
  THEN LET p == Resolved[args.f.path.s] IN
       IF args.f.operation.s = "delete"
       THEN IF r.out.payload.success THEN [path |-> p, below |-> FALSE]
            ELSE last
       ELSE IF last.path = p THEN NoDelete
       ELSE IF last.path \in AncestorsOf[p] THEN [last EXCEPT !.below = TRUE]
       ELSE last
  ELSE last

\* A tools/call request and its response.
CallTool(name, args, temperature, track) ==
  \E r \in {CallToolHandler(name, args, disk, temperature)} :
  /\ process.phase = "running"
  /\ UNCHANGED <<process, calls>>
  /\ req' = [kind |-> "call", name |-> name, args |-> args]
  /\ resp' = ResponseOf(r.out)
  /\ disk' = r.disk
  /\ ran' = [invoked |-> r.invoked, raised |-> r.raised,
             touched |-> r.touched, errno |-> r.errno]
  /\ lastWrite' = IF track THEN TrackWrite(name, args, r, lastWrite)
                  ELSE lastWrite
  /\ lastDelete' = IF track THEN TrackDelete(name, args, r, lastDelete)
                   ELSE lastDelete
  /\ listed' = <<>>

CallCalculator == \E args \in CalculatorArgs : CallTool("calculator", args, 0, FALSE)

\* The weather handler draws a temperature when the arguments are valid.
CallWeather ==
  \E args \in WeatherArgs :
    \E k \in IF WeatherValidateInput(args) = NoError
             THEN 0..(RandomSteps - 1) ELSE {0} :
      CallTool("weather", args,
               IF WeatherValidateInput(args) = NoError
               THEN WeatherTemperature(WeatherUnits(args) = "celsius", k)
               ELSE 0,
               FALSE)

CallFileOps ==
  \E args \in FileOpsArgs : CallTool("file_operations", args, 0, FALSE)

CallUnknown ==
  \E name \in UnknownToolNames :
    \E args \in UnknownToolArgs : CallTool(name, args, 0, FALSE)

Next == ListTools \/ CallCalculator \/ CallWeather \/ CallFileOps \/ CallUnknown

Spec == Init /\ [][Next]_vars

\* The file_operations requests of the round trip alone, with every content.
CallRoundTrip ==
  \E args \in RoundTripArgs : CallTool("file_operations", args, 0, TRUE)

NextRoundTrip == CallRoundTrip

SpecRoundTrip == Init /\ [][NextRoundTrip]_vars

\* The file_operations requests on a path, on a path below it and on another.
DeletePaths == {"/tmp/d", "/tmp/d/f", "/tmp/f"}

DeleteArgs ==
  { MkArgs(Str(op), Undef, Undef, Undef, Undef, Str(p), Undef) :
      op \in {"read", "delete", "exists"}, p \in DeletePaths }
  \cup
  { MkArgs(Str("write"), Undef, Undef, Undef, Undef, Str(p), Str("a")) :
      p \in DeletePaths }

CallDelete ==
  \E args \in DeleteArgs : CallTool("file_operations", args, 0, TRUE)

NextDelete == CallDelete

SpecDelete == Init /\ [][NextDelete]_vars

\* The calculator requests with every operation on small integer operands
\* (integers of this size and their sums, products and powers are doubles),
\* and the requests of the documented examples.
Operands == (-MaxOperand)..MaxOperand

ExampleArgs ==
  { MkArgs(Str("add"), Num(15), Num(7), Undef, Undef, Undef, Undef),
    MkArgs(Str("multiply"), Num(8), Num(9), Undef, Undef, Undef, Undef),
    MkArgs(Str("sqrt"), Num(144), Undef, Undef, Undef, Undef, Undef),
    MkArgs(Str("add"), Num(5), Num(3), Undef, Undef, Undef, Undef),
    MkArgs(Str("multiply"), Num(6), Num(7), Undef, Undef, Undef, Undef) }

ReferenceArgs ==
  { MkArgs(Str(op), Num(a), Num(b), Undef, Undef, Undef, Undef) :
      op \in {"add", "subtract", "multiply", "divide", "power"},
      a \in Operands, b \in Operands }
  \cup
  { MkArgs(Str("sqrt"), Num(a), Undef, Undef, Undef, Undef, Undef) :
      a \in Operands }
  \cup ExampleArgs

CallReference ==
  \E args \in ReferenceArgs : CallTool("calculator", args, 0, FALSE)

NextReference == CallReference

SpecReference == Init /\ [][NextReference]_vars

\* Requests of every kind, the file_operations ones on a file in a directory
\* that a write creates, on a file in /tmp, on a path that leaves /tmp and on
\* one in a sibling of /tmp that validatePath lets through; one write has a
\* number for content.
FramePaths == {"/tmp/d/f", "/tmp/f", "/tmp/../etc/passwd", "/tmpevil/f"}

FrameCalls ==
  { [name |-> "calculator", args |-> args] :
      args \in { NoArgs,
                 MkArgs(Str("add"), Num(4), Num(2), Undef, Undef, Undef, Undef),
                 MkArgs(Str("divide"), Num(4), Num(0), Undef, Undef, Undef, Undef) } }
  \cup
  { [name |-> "weather", args |-> args] :
      args \in { MkArgs(Undef, Undef, Undef, Str("Paris"), Undef, Undef, Undef),
                 MkArgs(Undef, Undef, Undef, Str(""), Undef, Undef, Undef) } }
  \cup
  { [name |-> "nonexistent", args |-> NoArgs] }
  \cup
  { [name |-> "file_operations", args |-> args] :
      args \in
        { MkArgs(Str(op), Undef, Undef, Undef, Undef, Str(p), Undef) :
            op \in {"read", "list", "delete", "exists", "write", "chmod"},
            p \in FramePaths }
        \cup
        { MkArgs(Str("write"), Undef, Undef, Undef, Undef, Str(p), c) :
            p \in FramePaths, c \in {Str("a"), Str("")} }
        \cup
        { MkArgs(Str("write"), Undef, Undef, Undef, Undef, Str("/tmp/d/f"),
                 Num(7)) } }

CallFrame ==
  \E c \in FrameCalls :
    CallTool(c.name, c.args, WeatherTemperature(TRUE, 0), FALSE)

NextFrame == ListTools \/ CallFrame

SpecFrame == Init /\ [][NextFrame]_vars

(***************************************************************************)
(* The server process with its calls in flight.  main() constructs the     *)
(* server and awaits start(); a SIGINT or SIGTERM handler awaits           *)
(* server.close() and calls process.exit(0).  The CallTool handler is an   *)
(* async function: it runs up to the first fs call, which it awaits, and   *)
(* is resumed when that call completes; nothing in the server queues a     *)
(* request behind a handler that is suspended.  A handler that throws      *)
(* before its first fs call answers in the step that entered it.           *)
(***************************************************************************)
InitMain ==
  /\ disk \in InitialDisks
  /\ req = NoRequest
  /\ resp = NoResponse
  /\ listed = <<>>
  /\ ran = NoRun
  /\ lastWrite = NoWrite
  /\ lastDelete = NoDelete
  /\ process = [Running EXCEPT !.phase = "starting"]
  /\ calls = NoCalls

\* await this.server.connect(transport) resolves.
Start ==
  /\ process.phase = "starting"
  /\ process' = [process EXCEPT !.phase = "running"]
  /\ UNCHANGED <<disk, req, resp, listed, ran, lastWrite, lastDelete, calls>>

\* A catch of main() that also takes an error raised while the server runs.
MainCatchWhileRunning ==
  /\ process.phase \in {"starting", "running"}
  /\ process' = [process EXCEPT !.phase = "exited", !.exitCode = 1]
  /\ UNCHANGED <<disk, req, resp, listed, ran, lastWrite, lastDelete, calls>>

\* The constructor or start() throws: the catch of main() exits with 1.
MainCatch ==
  /\ process.phase = "starting"
  /\ process' = [process EXCEPT !.phase = "exited", !.exitCode = 1]
  /\ UNCHANGED <<disk, req, resp, listed, ran, lastWrite, lastDelete, calls>>

\* SIGINT or SIGTERM: the handler calls this.server.close() and awaits it.
Signal ==
  /\ process.phase \in {"starting", "running"}
  /\ process' = [process EXCEPT !.phase = "closing"]
  /\ UNCHANGED <<disk, req, resp, listed, ran, lastWrite, lastDelete, calls>>

\* this.server.close() completes: the transport is closed.
ServerClose ==
  /\ process.phase = "closing"
  /\ process' = [process EXCEPT !.phase = "closed", !.closed = TRUE]
  /\ UNCHANGED <<disk, req, resp, listed, ran, lastWrite, lastDelete, calls>>

\* A signal handler that does not await close() before it exits.
SignalExitNoAwait ==
  /\ process.phase \in {"closing", "closed"}
  /\ process' = [process EXCEPT !.phase = "exited", !.exitCode = 0]
  /\ UNCHANGED <<disk, req, resp, listed, ran, lastWrite, lastDelete, calls>>

\* The signal handler resumes after close() and calls process.exit(0).
SignalExit ==
  /\ process.phase = "closed"
  /\ process' = [process EXCEPT !.phase = "exited", !.exitCode = 0]
  /\ UNCHANGED <<disk, req, resp, listed, ran, lastWrite, lastDelete, calls>>

\* The file_operations requests of the calls in flight: a write below a
\* directory that does not exist yet, requests that see that directory and
\* that file, one that validatePath rejects, one that validateInput rejects
\* and one without arguments.
InFlightArgs ==
  { MkArgs(Str("write"), Undef, Undef, Undef, Undef, Str("/tmp/d/f"), Str("a")),
    MkArgs(Str("read"), Undef, Undef, Undef, Undef, Str("/tmp/d/f"), Undef),
    MkArgs(Str("delete"), Undef, Undef, Undef, Undef, Str("/tmp/d/f"), Undef),
    MkArgs(Str("exists"), Undef, Undef, Undef, Undef, Str("/tmp/d"), Undef),
    MkArgs(Str("read"), Undef, Undef, Undef, Undef,
           Str("/tmp/../etc/passwd"), Undef),
    MkArgs(Str("write"), Undef, Undef, Undef, Undef, Str("/tmp/d/f"), Undef),
    NoArgs }

\* Whether the handler reaches an fs call, which it awaits.
Suspends(args, d) == CallToolHandler("file_operations", args, d, 0).touched

\* A handler that never resumes from the mkdir of a write.
ResumeStuck(call, d) ==
  CHOOSE val \in {
  IF call.pc = "invoked" /\ call.args.f.operation.s = "write"
     /\ FsMkdirRecursive(d, DirnameOf[Resolved[call.args.f.path.s]]).errno = ""
  THEN [done |-> FALSE, r |-> r,
        disk |-> FsMkdirRecursive(d, DirnameOf[Resolved[call.args.f.path.s]]).disk]
  ELSE IF call.pc = "mkdir" THEN [done |-> FALSE, r |-> r, disk |-> d]
  ELSE [done |-> TRUE, r |-> r, disk |-> r.disk]
  : r \in {CallToolHandler("file_operations", call.args, d, 0)} } : TRUE

\* The handler resumed at the fs call it awaits.  A write awaits
\* fs.mkdir and then fs.writeFile; every other operation awaits one fs call
\* and is done.  No operation removes a directory, so the writeFile step of a
\* write finds the directories its mkdir left and is performOperation on the
\* file system of that moment.
Resume(call, d) ==
  CHOOSE val \in {
  IF call.pc = "invoked" /\ call.args.f.operation.s = "write"
     /\ FsMkdirRecursive(d, DirnameOf[Resolved[call.args.f.path.s]]).errno = ""
  THEN [done |-> FALSE, r |-> r,
        disk |-> FsMkdirRecursive(d, DirnameOf[Resolved[call.args.f.path.s]]).disk]
  ELSE [done |-> TRUE, r |-> r, disk |-> r.disk]
  : r \in {CallToolHandler("file_operations", call.args, d, 0)} } : TRUE

\* A tools/call request for file_operations arrives and its handler is
\* entered; it answers at once when it throws before any fs call.
Invoke(id) ==
  \E args \in InFlightArgs :
  \E r \in {CallToolHandler("file_operations", args, disk, 0)} :
    /\ process.phase = "running"
    /\ calls[id].pc = "idle"
    /\ \A j \in CallIds : j < id => calls[j].pc # "idle"
    /\ IF Suspends(args, disk)
       THEN /\ calls' = [calls EXCEPT ![id] = [pc |-> "invoked", args |-> args,
                                               resp |-> NoResponse]]
            /\ UNCHANGED <<req, resp, ran, listed>>
       ELSE /\ calls' = [calls EXCEPT ![id] = [pc |-> "responded", args |-> args,
                                               resp |-> ResponseOf(r.out)]]
            /\ req' = [kind |-> "call", name |-> "file_operations", args |-> args]
            /\ resp' = ResponseOf(r.out)
            /\ ran' = [invoked |-> r.invoked, raised |-> r.raised,
                       touched |-> r.touched, errno |-> r.errno]
            /\ listed' = <<>>
    /\ UNCHANGED <<disk, lastWrite, lastDelete, process>>

\* The fs call a handler awaits completes and the handler runs to its next
\* fs call or to its response.
Io(id) ==
  \E s \in {Resume(calls[id], disk)} :
    /\ process.phase = "running"
    /\ calls[id].pc \in {"invoked", "mkdir"}
    /\ disk' = s.disk
    /\ IF s.done
       THEN /\ calls' = [calls EXCEPT ![id].pc = "responded",
                                      ![id].resp = ResponseOf(s.r.out)]
            /\ req' = [kind |-> "call", name |-> "file_operations",
                       args |-> calls[id].args]
            /\ resp' = ResponseOf(s.r.out)
            /\ ran' = [invoked |-> s.r.invoked, raised |-> s.r.raised,
                       touched |-> s.r.touched, errno |-> s.r.errno]
            /\ listed' = <<>>
       ELSE /\ calls' = [calls EXCEPT ![id].pc = "mkdir"]
            /\ UNCHANGED <<req, resp, ran, listed>>
    /\ UNCHANGED <<lastWrite, lastDelete, process>>

InvokeCall == \E id \in CallIds : Invoke(id)

IoCompletes == \E id \in CallIds : Io(id)

NextServer ==
  \/ Start \/ MainCatch \/ Signal \/ ServerClose \/ SignalExit
  \/ ListTools \/ InvokeCall \/ IoCompletes

SpecServer == InitMain /\ [][NextServer]_vars

\* Each fs call a handler awaits completes or fails while the process runs,
\* and a signal handler that awaits close() resumes and exits.
SpecServerFair ==
  /\ InitMain /\ [][NextServer]_vars
  /\ \A id \in CallIds : WF_vars(Io(id))
  /\ WF_vars(ServerClose)
  /\ WF_vars(SignalExit)

(***************************************************************************)
(* The claims.                                                             *)
(***************************************************************************)
IsCall == req.kind = "call"
IsCallOf(name) == IsCall /\ req.name = name
Succeeded == resp.result # NoPayload
Failed == resp.error # NoError

\* The names the server registers.
RegisteredNames == {"calculator", "weather", "file_operations"}

\* The error kinds of the protocol.
ErrorKinds == {"MethodNotFound", "InvalidParams", "InternalError"}

\* The Error a tool's validation throws for the arguments, NoError when the
\* arguments pass (or when reading them fails before any check).
ValidationErrorOf(name, args) ==
  LET e == CASE name = "calculator" -> CalculatorValidateInput(args)
             [] name = "weather" -> WeatherValidateInput(args)
             [] name = "file_operations" ->
                  IF FileOpsValidateInput(args) # NoError
                  THEN FileOpsValidateInput(args)
                  ELSE FileOpsValidatePath(args.f.path.s)
             [] OTHER -> NoError
  IN  IF e.cls = "Error" THEN e ELSE NoError

\* The resolved path is an allowed directory or lies below one.
WithinAllowList(p) ==
  \E i \in 1..Len(AllowedDirectories) :
    LET base == Resolved[AllowedDirectories[i]]
    IN  p = base \/ StartsWith(p, base \o "/")

\* The last request is a file_operations call whose arguments pass
\* validateInput, with this operation.
IsFileOp(ops) ==
  /\ IsCallOf("file_operations")
  /\ FileOpsValidateInput(req.args) = NoError
  /\ req.args.f.operation.s \in ops

AllFileOps == {"read", "write", "list", "delete", "exists"}

RequestPath == Resolved[req.args.f.path.s]

\* C1: every callTool request ends in exactly one outcome, a Success with a
\* payload or a Failure with a kind and a message, never both and never
\* neither; whatever a tool raised, the outcome is such a Failure.
C1_ExactlyOneOutcome ==
  IsCall =>
    /\ Succeeded # Failed
    /\ Failed => /\ resp.error.cls = "McpError"
                 /\ resp.error.code # ""
                 /\ resp.error.message # ""
    /\ ran.raised # NoError => Failed /\ ~Succeeded

\* A tool raised a runtime TypeError and the call still ended in a Failure.
C1_Witness ==
  /\ IsCallOf("file_operations")
  /\ ran.raised.cls = "TypeError"
  /\ Failed /\ ~Succeeded

\* C2: a call of a name that is not registered ends in Failure
\* MethodNotFound, whatever the arguments, and enters no tool handler.
C2_UnknownToolMethodNotFound ==
  (IsCall /\ req.name \notin RegisteredNames) =>
    /\ Failed /\ ~Succeeded
    /\ resp.error.code = "MethodNotFound"
    /\ ran.invoked = "none"

C2_Witness ==
  /\ IsCallOf("nonexistent")
  /\ req.args.defined
  /\ resp.error.code = "MethodNotFound"

\* C3: when the validation of a registered tool rejects the arguments, the
\* call ends in Failure InvalidParams whose message contains the validation
\* message, never in InternalError and never in a Success.
C3_ValidationIsInvalidParams ==
  (IsCall /\ ValidationErrorOf(req.name, req.args) # NoError) =>
    /\ Failed /\ ~Succeeded
    /\ resp.error.code = "InvalidParams"
    /\ Includes(resp.error.message,
                ValidationErrorOf(req.name, req.args).message)

\* The access-denied rejection of a path outside the allowed directories.
C3_Witness ==
  /\ IsFileOp({"read"})
  /\ ~WithinAllowList(RequestPath)
  /\ resp.error.code = "InvalidParams"
  /\ Includes(resp.error.message, "Access denied")

\* The last call met a failure that is not a validation failure: the runtime
\* raised a TypeError inside the tool, or a file system call failed with an
\* errno other than ENOENT.
UnexpectedFailure ==
  \/ ran.raised.cls = "TypeError"
  \/ ran.errno \notin {"", "ENOENT"}

\* C4: a registered handler that fails with an unexpected condition makes
\* the call end in Failure InternalError.
C4_UnexpectedIsInternalError ==
  (IsCall /\ req.name \in RegisteredNames /\ UnexpectedFailure) =>
    (Failed /\ resp.error.code = "InternalError")

\* C5: every Failure has a kind of the closed set and a non-empty message.
C5_FailureIsClassified ==
  (IsCall /\ Failed) =>
    /\ resp.error.code \in ErrorKinds
    /\ Len(resp.error.message) > 0

C5_Witness ==
  /\ IsCallOf("weather")
  /\ req.args.defined /\ req.args.f.units = Str("kelvin")
  /\ Failed
  /\ resp.error.code = "InvalidParams"

\* C6: listTools answers with the registered definitions, calculator, weather
\* and file_operations in this order, no name twice, after any sequence of
\* requests.
C6_ListToolsIsTheRegistry ==
  req.kind = "list" =>
    /\ listed = <<CalculatorToolDefinition, WeatherToolDefinition,
                  FileOpsToolDefinition>>
    /\ [i \in 1..Len(listed) |-> listed[i].name]
         = <<"calculator", "weather", "file_operations">>
    /\ \A i, j \in 1..Len(listed) : listed[i].name = listed[j].name => i = j
    /\ ~Failed

\* A listTools answered after a write changed the file system.
C6_Witness ==
  /\ req.kind = "list"
  /\ Len(listed) = 3
  /\ "/tmp/f" \in DOMAIN disk.files

\* C7: the paths the file_operations tool accepts are the allowed
\* directories and their descendants; every other path is rejected, for
\* every operation, before the file system is called.
C7_AcceptedIffAllowListed ==
  IsFileOp(AllFileOps) =>
    /\ ran.touched => WithinAllowList(RequestPath)
    /\ ~WithinAllowList(RequestPath) =>
         (Failed /\ resp.error.code = "InvalidParams" /\ ~ran.touched)

\* The message of the access-denied rejection: it names the allowed
\* directories, not the path.
AccessDeniedMessage ==
  "File operations error: Access denied. Path must be within allowed "
  \o "directories: /tmp, /app"

\* C8: a read of a path outside the allow-list ends in Failure InvalidParams
\* with the same message whether or not the path exists, and the file system
\* is not consulted.
C8_OutsideReadIsRejectedUnseen ==
  (IsFileOp({"read"}) /\ ~WithinAllowList(RequestPath)) =>
    /\ Failed /\ ~Succeeded
    /\ resp.error.code = "InvalidParams"
    /\ resp.error.message = AccessDeniedMessage
    /\ ~ran.touched

\* C9: a read or delete of an allow-listed path that does not exist ends in
\* a Failure that is not InternalError, not in a Success.
C9_MissingFileIsFailure ==
  (IsFileOp({"read", "delete"}) /\ WithinAllowList(RequestPath)
     /\ ran.errno = "ENOENT") =>
    /\ Failed /\ ~Succeeded
    /\ resp.error.code # "InternalError"

\* The last request reads the path of the last successful write, with no
\* write or delete of that path in between.
ReadsLastWrite ==
  /\ lastWrite # NoWrite
  /\ IsFileOp({"read"})
  /\ RequestPath = lastWrite.path

ReturnsContent(content) ==
  /\ Succeeded /\ ~Failed
  /\ resp.result.success
  /\ resp.result.dataKind = "string"
  /\ resp.result.data = content

\* C10, as stated: a read after a successful write of any string returns
\* exactly the written content.
C10_RoundTripEveryString == ReadsLastWrite => ReturnsContent(lastWrite.content)

\* No surrogate of the string is unpaired.
RECURSIVE WellFormedFrom(_, _)
WellFormedFrom(s, i) ==
  IF i > Len(s) THEN TRUE
  ELSE LET u == CodeUnitOf(CharAt(s, i)) IN
       IF IsHighSurrogate(u)
       THEN /\ i < Len(s)
            /\ IsLowSurrogate(CodeUnitOf(CharAt(s, i + 1)))
            /\ WellFormedFrom(s, i + 2)
       ELSE ~IsLowSurrogate(u) /\ WellFormedFrom(s, i + 1)

WellFormed(s) == WellFormedFrom(s, 1)

\* C10, amended: a read after a successful write of a string with no
\* unpaired surrogate returns exactly the written content, the empty string
\* included, whether or not the file or its directory existed before; a
\* later write replaces the earlier content.
C10_RoundTripWellFormed ==
  (ReadsLastWrite /\ WellFormed(lastWrite.content)) =>
    ReturnsContent(lastWrite.content)

\* A surrogate pair read back from a file in a directory the write created.
C10_Witness ==
  /\ ReadsLastWrite
  /\ lastWrite = [path |-> "/tmp/d/f", content |-> "HL"]
  /\ ReturnsContent("HL")

\* The operation of a file_operations request whose arguments pass
\* validateInput ("" for any other request), and its resolved path.
FileOpOf(rq) ==
  IF rq.kind = "call" /\ rq.name = "file_operations"
     /\ FileOpsValidateInput(rq.args) = NoError
  THEN rq.args.f.operation.s ELSE ""

PathOf(rq) == Resolved[rq.args.f.path.s]

\* What the claim expects of a request for the deleted path p: exists says
\* no, read and delete say that the file was not found.
ReportsGone(rq, rs, p) ==
  /\ rs.result # NoPayload /\ rs.error = NoError
  /\ FileOpOf(rq) = "exists" =>
       rs.result.success /\ rs.result.data = "File does not exist"
  /\ FileOpOf(rq) \in {"read", "delete"} =>
       /\ ~rs.result.success
       /\ rs.result.message = "File not found: " \o p

\* The step answers an exists, read or delete request for the path of the
\* last successful delete, with no write request for that path in between.
AfterDelete ==
  /\ lastDelete # NoDelete
  /\ FileOpOf(req') \in {"exists", "read", "delete"}
  /\ PathOf(req') = lastDelete.path

\* C11, as stated: after a successful delete of a path and no write to it,
\* exists reports that the file does not exist and read or delete report
\* file-not-found.
C11_DeletedIsGone ==
  [][AfterDelete => ReportsGone(req', resp', lastDelete.path)]_vars

\* C11, amended: the same, when no write to a path below the deleted path
\* came in between either (such a write creates a directory at the path).
C11_DeletedIsGoneUnlessWrittenBelow ==
  [][(AfterDelete /\ ~lastDelete.below)
       => ReportsGone(req', resp', lastDelete.path)]_vars

\* An exists check of /tmp/d/f after it was written and deleted.
C11_Witness ==
  /\ lastDelete = [path |-> "/tmp/d/f", below |-> FALSE]
  /\ FileOpOf(req) = "exists" /\ PathOf(req) = "/tmp/d/f"
  /\ resp.result.data = "File does not exist"

\* C12: an exists check on an allow-listed path leaves the file system as it
\* is, and an exists check that follows an exists check of the same path
\* gets the same response.
C12_ExistsIsIdempotent ==
  [][(FileOpOf(req') = "exists" /\ WithinAllowList(PathOf(req')))
       => /\ disk' = disk
          /\ (FileOpOf(req) = "exists" /\ PathOf(req) = PathOf(req'))
               => resp' = resp]_vars

\* An exists check of the missing /tmp/f, answered "File does not exist".
C12_Witness ==
  /\ FileOpOf(req) = "exists" /\ PathOf(req) = "/tmp/f"
  /\ resp.result.data = "File does not exist"
  /\ ran.touched

\* The reference value of an operation on the integers a and b, as a rational
\* in lowest terms: defined says whether there is one (a square root that is
\* no integer, and 0 to a negative power, have none).
Reference(op, a, b) ==
  CASE op = "add" -> [defined |-> TRUE, value |-> Rational(a + b, 1)]
    [] op = "subtract" -> [defined |-> TRUE, value |-> Rational(a - b, 1)]
    [] op = "multiply" -> [defined |-> TRUE, value |-> Rational(a * b, 1)]
    [] op = "divide" -> [defined |-> b # 0,
                         value |-> IF b # 0 THEN Rational(a, b)
                                   ELSE Rational(0, 1)]
    [] op = "power" ->
         IF b >= 0 THEN [defined |-> TRUE, value |-> Rational(IntPow(a, b), 1)]
         ELSE [defined |-> a # 0,
               value |-> IF a # 0 THEN Rational(1, IntPow(a, -b))
                         ELSE Rational(0, 1)]
    [] op = "sqrt" ->
         [defined |-> \E r \in 0..a : r * r = a,
          value |-> IF \E r \in 0..a : r * r = a
                    THEN Rational(CHOOSE r \in 0..a : r * r = a, 1)
                    ELSE Rational(0, 1)]

\* The last request is a calculator call that passed validation.
IsValidCalculation ==
  /\ IsCallOf("calculator")
  /\ req.args.defined
  /\ CalculatorValidateInput(req.args) = NoError

RequestReference ==
  Reference(req.args.f.operation.s, req.args.f.a.n, req.args.f.b.n)

\* The response is a Success whose result is exactly the rational v.
ReturnsNumber(v) ==
  /\ Succeeded /\ ~Failed
  /\ resp.result.numKind = "exact"
  /\ resp.result.num = v.num /\ resp.result.den = v.den

IsCalculation(op) ==
  /\ IsCallOf("calculator")
  /\ req.args.defined
  /\ req.args.f.operation = Str(op)
  /\ req.args.f.a.t = "number" /\ ~IsNaN(req.args.f.a)

\* C14: divide by 0 and sqrt of a number below 0 end in Failure
\* InvalidParams, never in a Success.
C14_DomainErrorsAreInvalidParams ==
  (\/ IsCalculation("divide") /\ req.args.f.b = Num(0)
   \/ IsCalculation("sqrt") /\ req.args.f.a.n < 0)
    => /\ Failed /\ ~Succeeded
       /\ resp.error.code = "InvalidParams"

\* divide(-3, 0) was rejected.
C14_Witness ==
  /\ IsCalculation("divide")
  /\ req.args.f.a = Num(-3) /\ req.args.f.b = Num(0)
  /\ resp.error.code = "InvalidParams"
  /\ resp.error.message = "Calculator error: Division by zero is not allowed"

\* The declared fields of a registered tool, in the order of its definition.
DeclaredFields(name) ==
  CASE name = "calculator" -> CalculatorToolDefinition.properties
    [] name = "weather" -> WeatherToolDefinition.properties
    [] name = "file_operations" -> FileOpsToolDefinition.properties

\* Whether the field of the arguments violates its presence, type, enum or
\* domain constraint; with allowList, a file_operations path outside the
\* allowed directories violates too.
Violates(name, field, f, allowList) ==
  CASE name = "calculator" /\ field = "operation" ->
         f.operation.t # "string" \/ f.operation.s = ""
         \/ ~SeqIncludes(CalcValidOperations, f.operation)
    [] name = "calculator" /\ field = "a" ->
         f.a.t # "number" \/ IsNaN(f.a)
         \/ (f.operation = Str("sqrt") /\ f.a.n < 0)
    [] name = "calculator" /\ field = "b" ->
         \/ f.operation # Str("sqrt") /\ (f.b.t # "number" \/ IsNaN(f.b))
         \/ f.operation = Str("divide") /\ f.b = Num(0)
    [] name = "weather" /\ field = "location" ->
         f.location.t # "string" \/ Trim(f.location.s) = ""
    [] name = "weather" /\ field = "units" ->
         f.units.t # "undefined" /\ ~SeqIncludes(WeatherValidUnits, f.units)
    [] name = "file_operations" /\ field = "operation" ->
         f.operation.t # "string" \/ f.operation.s = ""
         \/ ~SeqIncludes(FileOpsValidOperations, f.operation)
    [] name = "file_operations" /\ field = "path" ->
         \/ f.path.t # "string" \/ f.path.s = ""
         \/ allowList /\ ~WithinAllowList(Resolved[f.path.s])
    [] name = "file_operations" /\ field = "content" ->
         f.operation = Str("write") /\ f.content.t = "undefined"

ViolatingIndices(name, f, allowList) ==
  { i \in 1..Len(DeclaredFields(name)) :
      Violates(name, DeclaredFields(name)[i], f, allowList) }

\* The violating field that comes first in the declared order.
FirstViolating(name, f, allowList) ==
  DeclaredFields(name)[CHOOSE i \in ViolatingIndices(name, f, allowList) :
    \A j \in ViolatingIndices(name, f, allowList) : i <= j]

\* The field that the message of a tool's Error is about.
FieldOfMessage(m) ==
  CASE StartsWith(m, "Operation is required") -> "operation"
    [] StartsWith(m, "Invalid operation.") -> "operation"
    [] StartsWith(m, "Parameter \"a\"") -> "a"
    [] StartsWith(m, "Cannot calculate square root") -> "a"
    [] StartsWith(m, "Parameter \"b\"") -> "b"
    [] StartsWith(m, "Division by zero") -> "b"
    [] StartsWith(m, "Location") -> "location"
    [] StartsWith(m, "Units") -> "units"
    [] StartsWith(m, "Path is required") -> "path"
    [] StartsWith(m, "Access denied.") -> "path"
    [] StartsWith(m, "Content is required") -> "content"
    [] OTHER -> ""

\* The request is a call of a registered tool whose arguments violate the
\* constraints of several fields at once.
SeveralViolations(rq, allowList) ==
  /\ rq.kind = "call" /\ rq.name \in RegisteredNames
  /\ rq.args.defined
  /\ Cardinality(ViolatingIndices(rq.name, rq.args.f, allowList)) >= 2

\* The call failed, and the Error the tool raised is about the first
\* violating field.
ReportsFirstViolation(rq, rs, rn, allowList) ==
  /\ rs.error # NoError /\ rs.error.code = "InvalidParams"
  /\ FieldOfMessage(rn.raised.message)
       = FirstViolating(rq.name, rq.args.f, allowList)

\* C15, as stated: with several violations, the allow-list of the path among
\* them, the failure reported is the one of the first violating field, and
\* a request repeated gets the same failure.
C15_FirstFieldReported ==
  [][/\ SeveralViolations(req', TRUE)
        => ReportsFirstViolation(req', resp', ran', TRUE)
     /\ (req' = req /\ resp'.error # NoError) => resp' = resp]_vars

\* C15, amended: the same for the presence, type, enum and domain checks of
\* the fields; the allow-list check of the path comes after all of them.
C15_FirstFieldReportedBeforeAllowList ==
  [][/\ SeveralViolations(req', FALSE)
        => ReportsFirstViolation(req', resp', ran', FALSE)
     /\ (/\ req'.kind = "call" /\ req'.name = "file_operations"
         /\ req'.args.defined
         /\ ViolatingIndices("file_operations", req'.args.f, FALSE) = {}
         /\ ~FileOpsIsAllowed(Resolved[req'.args.f.path.s]))
        => FieldOfMessage(ran'.raised.message) = "path"
     /\ (req' = req /\ resp'.error # NoError) => resp' = resp]_vars

\* A write with neither a path nor a content, rejected for its path.
C15_Witness ==
  /\ SeveralViolations(req, FALSE)
  /\ req.name = "file_operations"
  /\ ViolatingIndices("file_operations", req.args.f, FALSE) = {2, 3}
  /\ ran.raised.message = "Path is required and must be a string"

\* The definition and the handler of each name as the constructor leaves
\* them.
StartupRegistry ==
  [n \in RegisteredNames |->
     [definition |-> CHOOSE d \in { CalculatorToolDefinition,
                                    WeatherToolDefinition,
                                    FileOpsToolDefinition } : d.name = n,
      handler |-> n]]

\* C16: after any sequence of requests, succeeded or failed, listTools gives
\* the definitions of startup and callTool enters, for each name, the handler
\* the name had at startup (none for a name that had none).
C16_RegistryIsFixed ==
  /\ req.kind = "list" =>
       /\ Len(listed) = Cardinality(RegisteredNames)
       /\ { listed[i] : i \in 1..Len(listed) }
            = { StartupRegistry[n].definition : n \in RegisteredNames }
  /\ IsCall =>
       /\ ran.invoked = IF req.name \in DOMAIN StartupRegistry
                        THEN StartupRegistry[req.name].handler ELSE "none"
       /\ req.name \in DOMAIN StartupRegistry
            => resp.error.code # "MethodNotFound"

\* A weather call answered by the weather handler after a write and a failed
\* call changed the state of the server.
C16_Witness ==
  /\ IsCallOf("weather")
  /\ ran.invoked = "weather"
  /\ Succeeded
  /\ DOMAIN disk.files # {}

\* A call whose handler was entered and whose response is not produced.
InProgress(call) == call.pc \in {"invoked", "mkdir"}

\* C17: calls are processed one at a time: no step of a call, the entry of
\* its handler included, is taken while another call is between the entry of
\* its handler and its response.
C17_OneCallAtATime ==
  [][\A i \in CallIds :
       calls'[i] # calls[i]
         => \A j \in CallIds \ {i} : ~InProgress(calls[j])]_vars

\* A call observed the directory of a write whose file is not written: it
\* answered that /tmp/d exists while the write of /tmp/d/f had made the
\* directory and not yet the file.
C17_PartialEffectObserved ==
  \E i, j \in CallIds :
    /\ calls[i].pc = "mkdir"
    /\ "/tmp/d/f" \notin DOMAIN disk.files
    /\ calls[j].pc = "responded"
    /\ calls[j].args.f.operation.s = "exists"
    /\ calls[j].resp.result.data = "File exists"

\* C18: every call whose handler was entered eventually produces its
\* response, each fs call it awaits completing or failing.
C18_EveryCallResponds ==
  \A id \in CallIds :
    InProgress(calls[id]) ~> (calls[id].pc = "responded")

\* C18, amended: every call whose handler was entered eventually produces its
\* response unless a shutdown signal ends the server first.
C18_EveryCallRespondsUnlessShutDown ==
  \A id \in CallIds :
    InProgress(calls[id])
      ~> (calls[id].pc = "responded" \/ process.phase # "running")

\* A write that was suspended at its mkdir and at its writeFile has answered.
C18_Witness ==
  \E id \in CallIds :
    /\ calls[id].pc = "responded"
    /\ calls[id].args.f.operation.s = "write"
    /\ calls[id].resp.result.success
    /\ process.phase = "running"

\* The step in which the process exits.
Exits == process.phase # "exited" /\ process'.phase = "exited"

\* The step in which call id produces a Failure.
FailsIn(id) ==
  /\ calls[id].pc # "responded"
  /\ calls'[id].pc = "responded"
  /\ calls'[id].resp.error # NoError

\* A Failure leaves the server as it found it: running, on the same file
\* system and with the other calls where they were, so that every later
\* request, answered from its arguments and that state alone, is answered as
\* if the failed call had not been made.
FailureLeavesServer ==
  \A id \in CallIds :
    FailsIn(id) =>
      /\ process' = process
      /\ process'.phase = "running"
      /\ disk' = disk
      /\ \A j \in CallIds \ {id} : calls'[j] = calls[j]
      /\ \A args \in InFlightArgs :
           CallToolHandler("file_operations", args, disk', 0)
             = CallToolHandler("file_operations", args, disk, 0)

\* C19: the process exits only in answer to a shutdown signal, and a Failure
\* of a call leaves the server running and answering as before.
C19_OnlySignalsExit ==
  [][/\ Exits => process.phase = "closed"
     /\ FailureLeavesServer]_vars

\* C19, amended: once started the process exits only in answer to a shutdown
\* signal, with status 0; before that it exits, with status 1, when startup
\* fails; a Failure of a call leaves the server running and answering as
\* before.
C19_OnlySignalsExitOnceStarted ==
  [][/\ Exits => \/ process.phase = "closed" /\ process'.exitCode = 0
                 \/ process.phase = "starting" /\ process'.exitCode = 1
     /\ FailureLeavesServer]_vars

\* A call failed, a later call succeeded, and the process then exited on a
\* signal.
C19_Witness ==
  /\ process.phase = "exited"
  /\ process.exitCode = 0
  /\ \E i, j \in CallIds :
       /\ i < j
       /\ calls[i].pc = "responded" /\ calls[i].resp.error # NoError
       /\ calls[j].pc = "responded" /\ calls[j].resp.result.success

\* C20: a successful weather call returns the location it was given,
\* character for character, with the units label "Celsius" when units is
\* omitted or "celsius" and "Fahrenheit" when units is "fahrenheit".
C20_WeatherEchoesLocationAndUnits ==
  (IsCallOf("weather") /\ Succeeded) =>
    /\ resp.result.location = req.args.f.location.s
    /\ (req.args.f.units = Undef \/ req.args.f.units = Str("celsius"))
         => resp.result.units = "Celsius"
    /\ req.args.f.units = Str("fahrenheit")
         => resp.result.units = "Fahrenheit"

\* A successful call in Fahrenheit for a location with a leading space.
C20_Witness ==
  /\ IsCallOf("weather")
  /\ Succeeded
  /\ req.args.f.location.s # Trim(req.args.f.location.s)
  /\ req.args.f.units = Str("fahrenheit")
  /\ resp.result.units = "Fahrenheit"

\* The phases of the validation contract, in their order.
Phases == <<"presence", "type", "enum", "semantic">>

PhaseRank(ph) == CHOOSE k \in 1..Len(Phases) : Phases[k] = ph

\* Whether the schema of the tool requires the field.
IsRequired(name, field) ==
  \E d \in { CalculatorToolDefinition, WeatherToolDefinition,
              FileOpsToolDefinition } :
    d.name = name /\ \E k \in 1..Len(d.required) : d.required[k] = field

\* The declared primitive type of a field, and whether an enumerated set
\* constrains it.
DeclaredType(field) == IF field \in {"a", "b"} THEN "number" ELSE "string"

InEnum(name, field, v) ==
  CASE name = "calculator" /\ field = "operation" -> SeqIncludes(CalcValidOperations, v)
    [] name = "file_operations" /\ field = "operation" ->
         SeqIncludes(FileOpsValidOperations, v)
    [] name = "weather" /\ field = "units" -> SeqIncludes(WeatherValidUnits, v)
    [] OTHER -> TRUE

\* The constraints specific to the tools: the second operand of a binary
\* operation, the divisor, the radicand, a number that is NaN, the location
\* and the path that are empty, the content of a write.
ViolatesSemantic(name, field, f) ==
  CASE name = "calculator" /\ field = "a" ->
         IsNaN(f.a) \/ (f.operation = Str("sqrt") /\ f.a.n < 0)
    [] name = "calculator" /\ field = "b" ->
         \/ IsNaN(f.b)
         \/ f.b.t = "undefined" /\ f.operation.t = "string"
              /\ f.operation.s \in {"add", "subtract", "multiply", "divide", "power"}
         \/ f.operation = Str("divide") /\ f.b = Num(0)
    [] name = "weather" /\ field = "location" -> Trim(f.location.s) = ""
    [] name = "file_operations" /\ field = "path" -> f.path.s = ""
    [] name = "file_operations" /\ field = "content" ->
         f.operation = Str("write") /\ f.content.t = "undefined"
    [] OTHER -> FALSE

\* The earliest phase the field violates, "none" when it violates none.
FieldPhase(name, field, f) ==
  IF f[field].t = "undefined"
  THEN IF IsRequired(name, field) THEN "presence"
       ELSE IF ViolatesSemantic(name, field, f) THEN "semantic" ELSE "none"
  ELSE IF f[field].t # DeclaredType(field) THEN "type"
  ELSE IF ~InEnum(name, field, f[field]) THEN "enum"
  ELSE IF ViolatesSemantic(name, field, f) THEN "semantic"
  ELSE "none"

ViolatedPhases(name, f) ==
  { FieldPhase(name, DeclaredFields(name)[i], f) :
      i \in 1..Len(DeclaredFields(name)) } \ {"none"}

\* The violating fields, and the one that comes first in the declared order.
PhaseViolators(name, f) ==
  { i \in 1..Len(DeclaredFields(name)) :
      FieldPhase(name, DeclaredFields(name)[i], f) # "none" }

FirstPhaseViolator(name, f) ==
  DeclaredFields(name)[CHOOSE i \in PhaseViolators(name, f) :
                         \A j \in PhaseViolators(name, f) : i <= j]

\* The call is one of a registered tool whose arguments violate two phases.
ViolatesTwoPhases ==
  /\ IsCall /\ req.name \in RegisteredNames
  /\ req.args.defined
  /\ Cardinality(ViolatedPhases(req.name, req.args.f)) >= 2

MistypedFields(name, f) ==
  { DeclaredFields(name)[i] : i \in 1..Len(DeclaredFields(name)) }
    \cap { field \in ArgFields :
             f[field].t \notin {"undefined", DeclaredType(field)} }

\* C22: a call of a tool with a present field whose value is not of the
\* declared type, an optional field included, fails with InvalidParams
\* before any work is done.
C22_PresentFieldsAreTyped ==
  (/\ IsCall /\ req.name \in RegisteredNames
   /\ req.args.defined
   /\ MistypedFields(req.name, req.args.f) # {})
    => /\ Failed
       /\ resp.error.code = "InvalidParams"
       /\ ~ran.touched

\* A write whose content is a number passed validateInput and reached the
\* file system.
C22_MistypedContentReachesFs ==
  /\ IsCallOf("file_operations")
  /\ req.args.f.operation = Str("write")
  /\ req.args.f.content.t = "number"
  /\ ~Failed
  /\ ran.touched

\* The fields of a tool that an enumerated set constrains.
EnumFields(name) ==
  CASE name = "calculator" -> {"operation"}
    [] name = "weather" -> {"units"}
    [] name = "file_operations" -> {"operation"}

\* C23: a call of a tool with a present enumerated field whose value, the
\* empty string included, is not a member of the set fails with
\* InvalidParams; the value is never accepted nor replaced by a default.
C23_EnumValuesAreMembers ==
  (/\ IsCall /\ req.name \in RegisteredNames
   /\ req.args.defined
   /\ \E field \in EnumFields(req.name) :
        /\ req.args.f[field].t # "undefined"
        /\ ~InEnum(req.name, field, req.args.f[field]))
    => /\ Failed
       /\ resp.error.code = "InvalidParams"

\* A weather call with the empty string for units succeeded, in Celsius.
C23_EmptyUnitsDefaulted ==
  /\ IsCallOf("weather")
  /\ req.args.f.units = Str("")
  /\ Succeeded
  /\ resp.result.units = "Celsius"

\* The operations of two operands.
BinaryOperations == {"add", "subtract", "multiply", "divide", "power"}

IsOperand(v) == v.t = "number" /\ ~IsNaN(v)

\* C24: a binary operation without a numeric b fails with InvalidParams, every
\* call without a numeric a fails with InvalidParams, and sqrt of a
\* non-negative number succeeds without b.
C24_OperandsAreRequired ==
  (IsCallOf("calculator") /\ req.args.defined) =>
    /\ (/\ req.args.f.operation.t = "string"
        /\ req.args.f.operation.s \in BinaryOperations
        /\ ~IsOperand(req.args.f.b))
         => (Failed /\ resp.error.code = "InvalidParams")
    /\ ~IsOperand(req.args.f.a)
         => (Failed /\ resp.error.code = "InvalidParams")
    /\ (/\ req.args.f.operation = Str("sqrt")
        /\ IsOperand(req.args.f.a) /\ req.args.f.a.n >= 0
        /\ req.args.f.b = Undef)
         => (Succeeded /\ resp.result.tool = "calculator")

\* An addition with a and without b was rejected for its second operand.
C24_Witness ==
  /\ IsCallOf("calculator")
  /\ req.args.f.operation = Str("add")
  /\ IsOperand(req.args.f.a)
  /\ req.args.f.b = Undef
  /\ Failed
  /\ StartsWith(ran.raised.message, "Parameter \"b\" is required")

\* A string of white space alone, the empty string included.
IsBlank(str) == \A i \in 1..Len(str) : CharAt(str, i) \in WhiteSpace

\* C25: a weather call whose location is absent, not a string, empty or
\* white space alone fails with InvalidParams; with any other string
\* location and valid or omitted units it succeeds.
C25_LocationIsRequired ==
  (IsCallOf("weather") /\ req.args.defined) =>
    /\ (req.args.f.location.t # "string" \/ IsBlank(req.args.f.location.s))
         => (Failed /\ resp.error.code = "InvalidParams")
    /\ (/\ req.args.f.location.t = "string"
        /\ ~IsBlank(req.args.f.location.s)
        /\ req.args.f.units \in {Undef, Str("celsius"), Str("fahrenheit")})
         => (Succeeded /\ resp.result.tool = "weather")

\* A location of a space and a tab was rejected as empty.
C25_Witness ==
  /\ IsCallOf("weather")
  /\ req.args.f.location.t = "string"
  /\ Len(req.args.f.location.s) > 1
  /\ IsBlank(req.args.f.location.s)
  /\ Failed
  /\ ran.raised.message = "Location cannot be empty"

\* The request is a file_operations call with arguments and without content.
WithoutContent(rq) ==
  /\ rq.kind = "call" /\ rq.name = "file_operations"
  /\ rq.args.defined
  /\ rq.args.f.content = Undef

\* C26: a write without content fails with InvalidParams and leaves the file
\* system as it was, though the schema does not require content; a read,
\* list, delete or exists of an allow-listed path without content is not
\* rejected.
C26_WriteRequiresContent ==
  [][WithoutContent(req') =>
       /\ ~IsRequired("file_operations", "content")
       /\ req'.args.f.operation = Str("write")
            => /\ resp'.error # NoError
               /\ resp'.error.code = "InvalidParams"
               /\ ~ran'.touched
               /\ disk' = disk
       /\ (/\ req'.args.f.operation.s \in {"read", "list", "delete", "exists"}
           /\ req'.args.f.path.t = "string" /\ req'.args.f.path.s # ""
           /\ WithinAllowList(Resolved[req'.args.f.path.s]))
            => (resp'.error = NoError /\ ran'.touched)]_vars

\* A write of an allow-listed path without content was rejected for it.
C26_Witness ==
  /\ WithoutContent(req)
  /\ req.args.f.operation = Str("write")
  /\ req.args.f.path = Str("/tmp/f")
  /\ Failed
  /\ ran.raised.message = "Content is required for write operation"

\* A signal handler is between its start and its exit.
Signalled == process.phase \in {"closing", "closed"}

\* C27: after a termination signal the close of the server completes before
\* the process exits, a call in flight or not, and the process exits with
\* status 0.
C27_CloseBeforeExit ==
  [][(Signalled /\ Exits)
       => /\ process.closed
          /\ process.phase = "closed"
          /\ process'.exitCode = 0]_vars

\* The process exited with status 0 after the close, with a call in flight.
C27_Witness ==
  /\ process.phase = "exited"
  /\ process.closed
  /\ process.exitCode = 0
  /\ \E id \in CallIds : InProgress(calls[id])

\* The names in an answer to listTools.
NamesOf(defs) == { defs[i].name : i \in 1..Len(defs) }

\* The call was dispatched: it did not end in MethodNotFound.
Dispatched(rs) == ~(rs.error # NoError /\ rs.error.code = "MethodNotFound")

\* C28: the names listTools advertises are the names callTool dispatches: a
\* call that follows or precedes a listTools is answered with MethodNotFound
\* exactly when its name is not in the list.
C28_ListedIffDispatched ==
  [][/\ (req.kind = "list" /\ req'.kind = "call")
          => (req'.name \in NamesOf(listed) <=> Dispatched(resp'))
     /\ (req.kind = "call" /\ req'.kind = "list")
          => (req.name \in NamesOf(listed') <=> Dispatched(resp))]_vars

\* A call of a name that differs from a listed one in its case alone was
\* answered with MethodNotFound.
C28_Witness ==
  /\ IsCall
  /\ req.name = "Calculator"
  /\ req.name \notin NamesOf(ListToolsHandler)
  /\ ~Dispatched(resp)

\* The request is a write or a delete of file_operations that validateInput
\* and validatePath let through.
IsAcceptedChange(rq) ==
  /\ rq.kind = "call" /\ rq.name = "file_operations"
  /\ rq.args.defined
  /\ rq.args.f.operation \in {Str("write"), Str("delete")}
  /\ rq.args.f.path.t = "string" /\ rq.args.f.path.s # ""
  /\ rq.args.f.operation = Str("write") => rq.args.f.content # Undef
  /\ FileOpsIsAllowed(Resolved[rq.args.f.path.s])

\* The two file systems differ at most in the file at target and, for a
\* write, in directories above target that the first one lacks.
DiffersOnlyAt(before, after, target, isWrite) ==
  /\ \A q \in (DOMAIN before.files \cup DOMAIN after.files) \ {target} :
       /\ q \in DOMAIN before.files /\ q \in DOMAIN after.files
       /\ before.files[q] = after.files[q]
  /\ before.dirs \subseteq after.dirs
  /\ after.dirs \ before.dirs
       \subseteq (IF isWrite THEN AncestorsOf[target] ELSE {})

\* C29: the file system changes only in a write or delete of file_operations
\* that passed validation and the allow-list check, and then only at the
\* target path and its missing parent directories; every other request, and
\* every call that fails, leaves it unchanged.
C29_OnlyWriteAndDeleteChangeFs ==
  [][/\ disk' # disk
          => /\ IsAcceptedChange(req')
             /\ DiffersOnlyAt(disk, disk', Resolved[req'.args.f.path.s],
                              req'.args.f.operation = Str("write"))
     /\ (resp'.error # NoError \/ ~IsAcceptedChange(req')) => disk' = disk]_vars

\* A write made the directory its file is in, next to a file that was there.
C29_Witness ==
  /\ IsCallOf("file_operations")
  /\ req.args.f.operation = Str("write")
  /\ req.args.f.path = Str("/tmp/d/f")
  /\ Succeeded
  /\ resp.result.success
  /\ "/tmp/f" \in DOMAIN disk.files
  /\ "/tmp/d/f" \in DOMAIN disk.files

\* The response is a file_operations result that reports success = false.
ReportsFailure(rq, rs) ==
  /\ rq.kind = "call" /\ rq.name = "file_operations"
  /\ rs.error = NoError
  /\ rs.result.tool = "file_operations"
  /\ ~rs.result.success

\* C30: a file_operations call whose result reports success = false leaves
\* the file system as it was: a write that fails has made no directory and
\* no file.
C30_FailedOperationLeavesFs ==
  [][ReportsFailure(req', resp') => disk' = disk]_vars

\* A write that reported success = false left the directory it had made.
C30_FailedWriteLeftDirectory ==
  /\ ReportsFailure(req, resp)
  /\ req.args.f.operation = Str("write")
  /\ "/tmp/d" \in disk.dirs
  /\ "/tmp/d/f" \notin DOMAIN disk.files
  /\ ran.errno = "ERR_INVALID_ARG_TYPE"
=============================================================================
